---- MODULE Spec2Model ----
(***************************************************************************)
(* A model of the rrustv RISC-V emulator core: the RAM/ROM/HTIF devices,   *)
(* the address-routed bus (DynBus), the hart's fetch/decode/execute loop   *)
(* with its CSR file and SBI environment, and interrupt arbitration.       *)
(*                                                                         *)
(* Machine words (u64, usize, u32, u16) are modelled exactly, as the set   *)
(* of their set bit positions: 0x8000000000000003 is {63, 1, 0}.  Bytes    *)
(* held by memory devices and decoded instruction fields are integers.     *)
(***************************************************************************)
EXTENDS Integers, Sequences, FiniteSets, TLC

VARIABLES
    registers,  \* Hart.registers : [u64; 32]
    pc,         \* Hart.pc : usize
    csr,        \* Hart.csr : the CSR slots set so far (the others hold 0)
    stop,       \* Hart.stop : bool
    devices,    \* DynBus.devices : Vec<(Range<usize>, Box<dyn Device>)>
    ram,        \* Ram.data of a stand-alone RAM device
    irq,        \* inputs and result of the last interrupt arbitration
    last,       \* the operation performed by the last step, and its result
    steps,      \* number of operations performed on the hart's or the device's interface
    ticks       \* number of calls of Hart::tick

vars == <<registers, pc, csr, stop, devices, ram, irq, last, steps, ticks>>

(***************************************************************************)
(* Bounds of the model.                                                    *)
(***************************************************************************)
RamSize == 9        \* bytes of a modelled RAM (the program uses DRAM_SIZE)
MaxRamOps == 2      \* operations performed on the stand-alone RAM
MaxDevices == 2     \* devices mapped on the bus
MaxBusOps == 1      \* accesses performed through the bus

(***************************************************************************)
(* Machine words as bit sets.                                              *)
(***************************************************************************)
\* the word holding the natural number n < 2^31
Bits(n) == {i \in 0..30 : (n \div (2 ^ i)) % 2 = 1}

\* the natural number held by bits lo .. lo+15 of v (a 16-bit limb)
RECURSIVE LimbFrom(_, _, _)
LimbFrom(v, lo, i) ==
    IF i = 16 THEN 0
    ELSE (IF (lo + i) \in v THEN 2 ^ i ELSE 0) + LimbFrom(v, lo, i + 1)

Limb(v, lo) == LimbFrom(v, lo, 0)

\* the natural number held by a word below 2^31
NatOf(v) == Limb(v, 0) + 65536 * Limb(v \ {31}, 16)

\* `v as uW`: keeps the low w bits
Trunc(v, w) == {i \in v : i < w}

\* v >> n (logical) and v << n on 64 bits
Shr(v, n) == {i - n : i \in {j \in v : j >= n}}
Shl(v, n) == {i + n : i \in {j \in v : j + n < 64}}

\* sign extension of the low w bits to 64 bits
Sext(v, w) == Trunc(v, w) \cup (IF (w - 1) \in v THEN w..63 ELSE {})

\* 64-bit wrapping addition with carry-in c (0 or 1), limb by limb
\* the limb sums s0 .. s3 are turned into a word once each carry has been
\* passed on to the next limb
Join4(s0, s1, s2, s3) ==
    Bits(s0 % 65536) \cup Shl(Bits(s1 % 65536), 16)
       \cup Shl(Bits(s2 % 65536), 32) \cup Shl(Bits(s3 % 65536), 48)
Carry3(s0, s1, s2, x3) == Join4(s0, s1, s2, x3 + (s2 \div 65536))
Carry2(s0, s1, x2, x3) == Carry3(s0, s1, x2 + (s1 \div 65536), x3)
Carry1(s0, x1, x2, x3) == Carry2(s0, x1 + (s0 \div 65536), x2, x3)

AddCarry(a, b, c) ==
    Carry1(Limb(a, 0) + Limb(b, 0) + c, Limb(a, 16) + Limb(b, 16),
           Limb(a, 32) + Limb(b, 32), Limb(a, 48) + Limb(b, 48))

Add(a, b) == AddCarry(a, b, 0)
Not(a) == (0..63) \ a
Sub(a, b) == AddCarry(a, Not(b), 1)

\* unsigned a < b: the highest bit in which they differ is set in b
ULt(a, b) == \E i \in b \ a : \A j \in a \ b : j < i

(***************************************************************************)
(* Results of device operations: Ok(value) or Err(fault).                  *)
(***************************************************************************)
Ok(v) == [ok |-> TRUE, val |-> v, err |-> "", at |-> {}]
Err(e, a) == [ok |-> FALSE, val |-> {}, err |-> e, at |-> a]

Widths == {1, 2, 4, 8}

(***************************************************************************)
(* RAM (ram.rs).  data is the byte vector, indexed from 0.                 *)
(***************************************************************************)
\* Vec::get / get_mut: the index addr selects, Len(data) standing for every
\* address beyond the end of the vector
RamIndex(data, addr) ==
    IF (\A i \in addr : i < 31) /\ NatOf(addr) < Len(data) THEN NatOf(addr) ELSE Len(data)

\* the low byte of val, whatever k is
ByteOfLow(val, k) == Limb(Trunc(val, 8), 0)

\* byte k of val: ((val >> 8k) & 0xFF) as u8
ByteOf(val, k) == Limb(Trunc(val, 8 * k + 8), 8 * k)

\* the little-endian value of the w bytes data[n + src(0)], data[n + src(1)], ..
Assemble(data, n, w, src(_)) ==
    UNION {Shl(Bits(data[n + src(k) + 1]), 8 * k) : k \in 0..(w - 1)}

\* write_double / write_word / write_half / write_byte: the bytes are stored
\* one by one from addr on, and the first one out of bounds returns
\* MemoryFault(addr) with the earlier bytes already stored
RamWrite(data, w, addr, val) ==
    LET n == RamIndex(data, addr)
    IN  [data |-> [i \in DOMAIN data |->
                     IF n <= i - 1 /\ i - 1 < n + w THEN ByteOf(val, i - 1 - n) ELSE data[i]],
         res |-> IF n + w <= Len(data) THEN Ok({}) ELSE Err("MemoryFault", addr)]

\* read_double / read_word / read_half / read_byte: the sum of the shifted bytes
RamRead(data, w, addr) ==
    LET n == RamIndex(data, addr)
        src(k) == k
    IN  IF n + w > Len(data) THEN Err("MemoryFault", addr)
        ELSE Ok(Assemble(data, n, w, src))

\* Ram::new: zero-initialised
RamNew == [i \in 1..RamSize |-> 0]

(***************************************************************************)
(* ROM (rom.rs) and HTIF (htif.rs).                                        *)
(***************************************************************************)
\* Rom::read_*: bounds-checked little-endian reads; read_double checks and
\* uses the bytes at addr .. addr+3 only, repeating the byte at addr+3
RomRead(data, w, addr) ==
    LET n == RamIndex(data, addr)
        src(k) == IF k < 4 THEN k ELSE 3
    IN  IF n + (IF w = 8 THEN 4 ELSE w) > Len(data) THEN Err("MemoryFault", addr)
        ELSE Ok(Assemble(data, n, w, src))

\* Rom::write_*: every write is rejected
RomWrite(data, w, addr, val) == [data |-> data, res |-> Err("MemoryFault", addr)]

\* Htif::read_*
HtifRead(w, addr) ==
    IF w \in {4, 8} THEN Err("MemoryFault", addr) ELSE Err("Unaligned", addr)

\* Htif::write_*
HtifWrite(w, addr) ==
    IF w \in {1, 2} THEN Err("Unaligned", addr)
    ELSE IF addr = {} THEN Err("Halt", {}) ELSE Err("MemoryFault", addr)

(***************************************************************************)
(* The Device trait (device.rs): dynamic dispatch on the device's kind.    *)
(***************************************************************************)
DevRead(dev, w, addr) ==
    CASE dev.kind = "ram" -> RamRead(dev.data, w, addr)
      [] dev.kind = "rom" -> RomRead(dev.data, w, addr)
      [] OTHER -> HtifRead(w, addr)

\* the device after the write, and the write's result
DevWrite(dev, w, addr, val) ==
    CASE dev.kind = "ram" ->
            LET r == RamWrite(dev.data, w, addr, val)
            IN  [dev |-> [dev EXCEPT !.data = r.data], res |-> r.res]
      [] dev.kind = "rom" -> [dev |-> dev, res |-> RomWrite(dev.data, w, addr, val).res]
      [] OTHER -> [dev |-> dev, res |-> HtifWrite(w, addr)]

(***************************************************************************)
(* DynBus (bus.rs).                                                        *)
(***************************************************************************)
\* a range closed at both ends: start <= addr <= end
ContainsInclusive(range, addr) == ~ULt(addr, range.start) /\ ~ULt(range.end, addr)

\* Range::contains: start <= addr < end
Contains(range, addr) == ~ULt(addr, range.start) /\ ULt(addr, range.end)

\* the position of the first mapped range containing addr, 0 when there is none
FirstHit(devs, addr) ==
    LET hits == {i \in DOMAIN devs : Contains(devs[i].range, addr)}
    IN  IF hits = {} THEN 0 ELSE CHOOSE i \in hits : \A j \in hits : i <= j

\* DynBus::map: pushes the pair, whatever is mapped already
DynBusMap(devs, dev, range) == Append(devs, [range |-> range, dev |-> dev])

\* DynBus::read_double / read_word / read_half / read_byte
DynBusRead(devs, w, addr) ==
    LET i == FirstHit(devs, addr)
    IN  IF i = 0 THEN Err("Unmapped", addr)
        ELSE DevRead(devs[i].dev, w, Sub(addr, devs[i].range.start))

\* DynBus::write_double / write_word / write_half / write_byte
DynBusWrite(devs, w, addr, val) ==
    LET i == FirstHit(devs, addr)
    IN  IF i = 0 THEN [devs |-> devs, res |-> Err("Unmapped", addr)]
        ELSE LET r == DevWrite(devs[i].dev, w, Sub(addr, devs[i].range.start), val)
             IN  [devs |-> [devs EXCEPT ![i].dev = r.dev], res |-> r.res]

(***************************************************************************)
(* Instruction formats and decoding (ins.rs).  An instruction word is a    *)
(* set of bit positions; register numbers, opcodes and funct fields are    *)
(* numbers; an immediate is its value sign-extended to 64 bits (every use  *)
(* in hart.rs, `imm.sext()`, `imm as u64`, `imm as usize`, sign-extends).  *)
(***************************************************************************)
\* (ins >> lo) & (2^n - 1), as a number (n <= 16)
Field(ins, lo, n) == Limb(Trunc(ins, lo + n), lo)

\* ((ins >> lo) & (2^n - 1)) << to
Move(ins, lo, n, to) == {i - lo + to : i \in {j \in ins : lo <= j /\ j < lo + n}}

\* enum InstructionFormat
R(opcode, rd, funct3, rs1, rs2, funct7) ==
    [f |-> "R", opcode |-> opcode, rd |-> rd, funct3 |-> funct3, rs1 |-> rs1,
     rs2 |-> rs2, funct7 |-> funct7, imm |-> {}]
I(opcode, rd, funct3, rs1, imm) ==
    [f |-> "I", opcode |-> opcode, rd |-> rd, funct3 |-> funct3, rs1 |-> rs1,
     rs2 |-> 0, funct7 |-> 0, imm |-> imm]
S(opcode, funct3, rs1, rs2, imm) ==
    [f |-> "S", opcode |-> opcode, rd |-> 0, funct3 |-> funct3, rs1 |-> rs1,
     rs2 |-> rs2, funct7 |-> 0, imm |-> imm]
B(opcode, funct3, rs1, rs2, imm) ==
    [f |-> "B", opcode |-> opcode, rd |-> 0, funct3 |-> funct3, rs1 |-> rs1,
     rs2 |-> rs2, funct7 |-> 0, imm |-> imm]
U(opcode, rd, imm) ==
    [f |-> "U", opcode |-> opcode, rd |-> rd, funct3 |-> 0, rs1 |-> 0,
     rs2 |-> 0, funct7 |-> 0, imm |-> imm]
J(opcode, rd, imm) ==
    [f |-> "J", opcode |-> opcode, rd |-> rd, funct3 |-> 0, rs1 |-> 0,
     rs2 |-> 0, funct7 |-> 0, imm |-> imm]

\* the decoding failed (Err(InstructionDecodingError))
NoFormat == [f |-> "none"]

\* Instruction::IRV32(word) / Instruction::CRV32(parcel), and Instruction::size
IRV32(word) == [size |-> 4, word |-> word]
CRV32(word) == [size |-> 2, word |-> word]

\* Instruction::decode_32
decode_32(ins) ==
    LET opcode == Field(ins, 0, 7)
        rd == Field(ins, 7, 5)
        funct3 == Field(ins, 12, 3)
        rs1 == Field(ins, 15, 5)
        rs2 == Field(ins, 20, 5)
    IN  CASE opcode \in {51, 47} -> R(opcode, rd, funct3, rs1, rs2, Field(ins, 25, 7))
          [] opcode \in {19, 3, 103, 115, 15} ->
                I(opcode, rd, funct3, rs1, Sext(Shr(ins, 20), 12))
          [] opcode = 35 ->
                S(opcode, funct3, rs1, rs2,
                  Sext(Move(ins, 7, 5, 0) \cup Move(ins, 25, 7, 5), 12))
          [] opcode = 99 ->
                B(opcode, funct3, rs1, rs2,
                  Sext(Move(ins, 31, 1, 12) \cup Move(ins, 25, 6, 5)
                         \cup Move(ins, 8, 4, 1) \cup Move(ins, 7, 1, 11), 13))
          [] opcode = 111 ->
                J(opcode, rd,
                  Sext(Move(ins, 31, 1, 20) \cup Move(ins, 21, 10, 1)
                         \cup Move(ins, 20, 1, 11) \cup Move(ins, 12, 8, 12), 21))
          [] opcode \in {55, 23} -> U(opcode, rd, Sext(Shr(ins, 12), 20))
          [] OTHER -> NoFormat

\* RVC_REG_OFFSET: the compressed register fields name x8 .. x15
RVC_REG_OFFSET == 8

\* the 6-bit immediate of c.addi, c.li, c.lui, c.srli, c.andi and c.slli:
\* bit 12 and bits 6..2 gathered in a u8, then `(imm as i8) >> 2`
CImm6(ins) == Sext(Shr(Move(ins, 12, 1, 7) \cup Move(ins, 2, 5, 2), 2), 6)

\* Instruction::decode_16, quadrant 0 (op = 00)
decode_16_C0(ins) ==
    LET funct3 == Field(ins, 13, 3)
        lo == Field(ins, 2, 3) + RVC_REG_OFFSET
        hi == Field(ins, 7, 3) + RVC_REG_OFFSET
        imm == Shr(Move(ins, 6, 1, 3) \cup Move(ins, 5, 1, 7) \cup Move(ins, 10, 3, 4), 1)
    IN  CASE funct3 = 2 -> I(3, lo, 2, hi, imm)
          [] funct3 = 6 -> S(35, 2, hi, lo, imm)
          [] funct3 = 0 ->
                I(19, lo, 0, 2,
                  Shl(Move(ins, 7, 4, 4) \cup Move(ins, 11, 2, 2)
                        \cup Move(ins, 5, 1, 1) \cup Move(ins, 6, 1, 0), 2))
          [] OTHER -> NoFormat

\* Instruction::decode_16, quadrant 1 (op = 01), funct3 = 100
decode_16_C1_alu(ins) ==
    LET funct2 == Field(ins, 10, 2)
        rd == Field(ins, 7, 3) + RVC_REG_OFFSET
        rs2 == Field(ins, 2, 3) + RVC_REG_OFFSET
        sel == <<Field(ins, 10, 6), Field(ins, 5, 2)>>
    IN  CASE funct2 = 0 -> I(19, rd, 5, rd, CImm6(ins))
          [] funct2 = 1 ->
                I(19, rd, 5, rd,
                  Trunc(Shr(Move(ins, 12, 1, 7) \cup Move(ins, 2, 5, 2), 2), 5) \cup {10})
          [] funct2 = 2 -> I(19, rd, 7, rd, CImm6(ins))
          [] funct2 = 3 /\ sel = <<35, 3>> -> R(51, rd, 7, rd, rs2, 0)
          [] funct2 = 3 /\ sel = <<35, 2>> -> R(51, rd, 6, rd, rs2, 0)
          [] funct2 = 3 /\ sel = <<35, 1>> -> R(51, rd, 4, rd, rs2, 0)
          [] funct2 = 3 /\ sel = <<35, 0>> -> R(51, rd, 0, rd, rs2, 32)
          [] OTHER -> NoFormat

\* Instruction::decode_16, quadrant 1 (op = 01)
decode_16_C1(ins) ==
    LET funct3 == Field(ins, 13, 3)
        rd == Field(ins, 7, 5)
        sp16 == Move(ins, 12, 1, 7) \cup Move(ins, 6, 1, 2) \cup Move(ins, 5, 1, 4)
                  \cup Move(ins, 3, 2, 5) \cup Move(ins, 2, 1, 3)
        jmp == Move(ins, 12, 1, 15) \cup Move(ins, 11, 1, 8) \cup Move(ins, 9, 2, 12)
                  \cup Move(ins, 8, 1, 14) \cup Move(ins, 7, 1, 10) \cup Move(ins, 6, 1, 11)
                  \cup Move(ins, 3, 3, 5) \cup Move(ins, 2, 1, 9)
        jimm == Shl(Sext(Shr(jmp, 5), 11), 1)
        br == Move(ins, 12, 1, 7) \cup Move(ins, 10, 2, 2) \cup Move(ins, 5, 2, 5)
                  \cup Move(ins, 3, 2, 0) \cup Move(ins, 2, 1, 4)
        bimm == Sext(Shl(Sext(br, 8), 1), 16)
        rs1 == Field(ins, 7, 3) + RVC_REG_OFFSET
    IN  CASE funct3 = 0 -> I(19, rd, 0, rd, CImm6(ins))
          [] funct3 = 2 -> I(19, rd, 0, 0, CImm6(ins))
          [] funct3 = 3 /\ rd = 2 -> I(19, rd, 0, 2, Sext(Shl(Sext(sp16, 8), 2), 16))
          [] funct3 = 3 /\ rd # 2 -> U(55, rd, CImm6(ins))
          [] funct3 = 4 -> decode_16_C1_alu(ins)
          [] funct3 = 5 -> J(111, 0, jimm)
          [] funct3 = 1 -> J(111, 1, jimm)
          [] funct3 = 6 -> B(99, 0, rs1, 0, bimm)
          [] OTHER -> B(99, 1, rs1, 0, bimm)

\* Instruction::decode_16, quadrant 2 (op = 10)
decode_16_C2(ins) ==
    LET funct4 == Field(ins, 12, 4)
        rs1 == Field(ins, 7, 5)
        rs2 == Field(ins, 2, 5)
    IN  CASE funct4 \in {0, 1} -> I(19, rs1, 1, rs1, CImm6(ins))
          [] funct4 = 8 -> IF rs1 # 0 /\ rs2 = 0 THEN I(103, 0, 0, rs1, {})
                           ELSE I(19, rs1, 0, rs2, {})
          [] funct4 = 9 -> IF rs1 # 0 /\ rs2 = 0 THEN I(103, 1, 0, rs1, {})
                           ELSE IF rs1 = 0 /\ rs2 = 0 THEN I(115, 0, 0, 0, {0})
                           ELSE R(51, rs1, 0, rs1, rs2, 0)
          [] funct4 \in {4, 5} ->
                I(3, rs1, 2, 2,
                  Move(ins, 2, 2, 6) \cup Move(ins, 12, 1, 5) \cup Move(ins, 4, 3, 2))
          [] funct4 \in {12, 13} -> S(35, 2, 2, rs2, Move(ins, 9, 4, 2) \cup Move(ins, 7, 2, 6))
          [] OTHER -> NoFormat

\* Instruction::decode_16: split by the quadrant in the two low bits (fetch
\* never hands quadrant 11 to it)
decode_16(ins) ==
    CASE Field(ins, 0, 2) = 0 -> decode_16_C0(ins)
      [] Field(ins, 0, 2) = 1 -> decode_16_C1(ins)
      [] OTHER -> decode_16_C2(ins)

\* Instruction::decode: the format, or NoFormat for Err(IllegalOpcode(self))
decode(ins) == IF ins.size = 4 THEN decode_32(ins.word) ELSE decode_16(ins.word)

(***************************************************************************)
(* The CSR file (csr.rs).  hart.rs indexes it as `self.csr[i]`: the raw    *)
(* slot i of the 4096-entry array.  A slot missing from the function holds *)
(* its initial value 0.                                                    *)
(***************************************************************************)
MSTATUS == 768
MISA == 769
MEDELEG == 769
MTVEC == 773
MSCRATCH == 832
MEPC == 833
MCAUSE == 834
MTVAL == 835
MVENDORID == 3857
MARCHID == 3858
MIMPID == 3859
MHARTID == 3860
MCYCLE == 2816
MINSTRET == 2818
XLEN == 32

\* Csr::new(id): the slots assigned over the zeroed array, in the order of
\* the statements; a later assignment to the same slot wins
CsrNewWrites(id) ==
    <<<<MISA, {XLEN - 2, 8}>>, <<MVENDORID, {}>>, <<MARCHID, {}>>, <<MIMPID, {0}>>,
      <<MHARTID, id>>, <<MEDELEG, {}>>, <<MSTATUS, {}>>, <<MCYCLE, {}>>, <<MINSTRET, {}>>>>

CsrNewLast(writes, i) ==
    CHOOSE k \in DOMAIN writes :
        writes[k][1] = i /\ \A m \in DOMAIN writes : writes[m][1] = i => m <= k

CsrNewFrom(writes) ==
    [i \in {writes[k][1] : k \in DOMAIN writes} |-> writes[CsrNewLast(writes, i)][2]]

CsrNew(id) == CsrNewFrom(CsrNewWrites(id))

\* self.csr[i] read and written
CsrGet(c, i) == IF i \in DOMAIN c THEN c[i] ELSE {}
CsrSet(c, i, v) == [j \in DOMAIN c \cup {i} |-> IF j = i THEN v ELSE c[j]]

\* CSR_MAP: the numbers whose handlers are Csr::read_any / Csr::write_any
AnyCsrs ==
    {3857, 3858, 3859, 3860, 3861, 768, 769, 769, 771, 772, 774, 784, 832,
     833, 834, 835, 836, 842, 843, 778, 794, 839, 855, 928, 943, 1007,
     2816, 2818, 2819, 2847, 2944, 2946, 2946, 2975, 800, 803, 831, 1952,
     1953, 1954, 1955, 1956, 1968, 1969, 1970, 1971}

\* Csr::read_mtvec (WARL)
read_mtvec(c, i) ==
    LET val == CsrGet(c, i)
        mode == Trunc(val, 2) \cap {0}
        base == Shl(Shr(Shr(val, 2), 2), 2)
    IN  Trunc(Shl(base, 2), 64) \cup mode

\* Csr::read: the read handler of the first CSR_MAP entry with this number
\* (handle_nop yields 0), 0 when there is none
CsrRead(c, i) ==
    CASE i = MTVEC -> read_mtvec(c, i)
      [] i \in AnyCsrs -> CsrGet(c, i)
      [] OTHER -> {}

\* Csr::write: the write handler of the first CSR_MAP entry with this number
\* (handle_nop_wr ignores the value)
CsrWrite(c, i, v) == IF i = MTVEC \/ i \in AnyCsrs THEN CsrSet(c, i, v) ELSE c

(***************************************************************************)
(* The hart (hart.rs).  A hart h is the record of the struct's fields      *)
(* registers, pc, csr, stop and bus (the devices mapped on its DynBus).    *)
(***************************************************************************)
\* signed a < b (`as i64` comparison)
SLt(a, b) == IF (63 \in a) # (63 \in b) THEN 63 \in a ELSE ULt(a, b)

\* arithmetic shift right by n of the w-bit value v, sign-extended to 64 bits
Sra(v, n, w) == {i \in 0..63 : (IF i + n >= w THEN w - 1 ELSE i + n) \in v}

Xor(a, b) == (a \ b) \cup (b \ a)

\* set_register without the arm that ignores x0
set_register_any(h, reg, val) == [h EXCEPT !.registers[reg] = val]

\* Hart::set_register and Hart::get_register
set_register(h, reg, val) ==
    IF reg = 0 THEN h ELSE [h EXCEPT !.registers[reg] = val]
get_register(h, reg) == h.registers[reg]

\* an arm of execute_instruction that falls through to Ok(()), one that
\* returns an error, and the default arm
Done(h) == [h |-> h, res |-> Ok({})]
Fail(h, e, a) == [h |-> h, res |-> Err(e, a)]
DefaultArm(h) == Fail(h, "MemoryFault", h.pc)

\* execute_instruction: the R-format arms of opcodes 0110011 and 0111011
ExecAluR(h, d) ==
    LET a == get_register(h, d.rs1)
        b == get_register(h, d.rs2)
        a32 == Trunc(a, 32)
        b32 == Trunc(b, 32)
        sh6 == Field(b, 0, 6)
        sh5 == Field(b, 0, 5)
        k == <<d.opcode, d.funct3, d.funct7>>
        wr(v) == Done(set_register(h, d.rd, v))
    IN  CASE k = <<51, 0, 0>> -> wr(Add(a, b))
          [] k = <<59, 0, 0>> -> wr(Sext(Add(a32, b32), 32))
          [] k = <<51, 0, 32>> -> wr(Sub(a, b))
          [] k = <<59, 0, 32>> -> wr(Sext(Sub(a32, b32), 32))
          [] k = <<51, 4, 0>> -> wr(Xor(a, b))
          [] k = <<51, 6, 0>> -> wr(a \cup b)
          [] k = <<51, 7, 0>> -> wr(a \cap b)
          [] k = <<51, 1, 0>> -> wr(Shl(a, sh6))
          [] k = <<59, 1, 0>> -> wr(Sext(Shl(a32, sh5), 32))
          [] k = <<51, 5, 0>> -> wr(Shr(a, sh6))
          [] k = <<59, 5, 0>> -> wr(Sext(Shr(a32, sh5), 32))
          [] k = <<51, 5, 32>> -> wr(Sra(a, sh6, 64))
          [] k = <<59, 5, 32>> -> wr(Sra(a32, sh5, 32))
          [] k = <<51, 2, 0>> -> wr(IF SLt(a, b) THEN {0} ELSE {})
          [] k = <<51, 3, 0>> -> wr(IF ULt(a, b) THEN {0} ELSE {})
          [] OTHER -> DefaultArm(h)

\* execute_instruction: the I-format arms of opcodes 0010011 and 0011011
ExecAluI(h, d) ==
    LET a == get_register(h, d.rs1)
        a32 == Trunc(a, 32)
        imm == d.imm
        sh6 == Field(imm, 0, 6)
        sh5 == Field(imm, 0, 5)
        hi == Shr(Trunc(imm, 16), 6)
        k == <<d.opcode, d.funct3>>
        wr(v) == Done(set_register(h, d.rd, v))
    IN  CASE k = <<19, 0>> -> wr(Add(a, imm))
          [] k = <<27, 0>> -> wr(Sext(Add(a32, Trunc(imm, 32)), 32))
          [] k = <<19, 4>> -> wr(Xor(a, imm))
          [] k = <<19, 6>> -> wr(a \cup imm)
          [] k = <<19, 7>> -> wr(a \cap imm)
          [] k = <<19, 1>> -> wr(Shl(a, sh6))
          [] k = <<27, 1>> -> wr(Sext(Shl(a32, sh5), 32))
          [] k = <<19, 5>> /\ hi = {} -> wr(Shr(a, sh6))
          [] k = <<27, 5>> /\ hi = {} -> wr(Sext(Shr(a32, sh5), 32))
          [] k = <<19, 5>> /\ hi = {4} -> wr(Sra(a, sh6, 64))
          [] k = <<27, 5>> /\ hi = {4} -> wr(Sra(a32, sh5, 32))
          [] k = <<19, 2>> -> wr(IF SLt(a, imm) THEN {0} ELSE {})
          [] k = <<19, 3>> -> wr(IF ULt(a, imm) THEN {0} ELSE {})
          [] OTHER -> DefaultArm(h)

\* execute_instruction: lb, lh, lw, ld, lbu, lhu, lwu.  A bus error returns
\* from the function (the `?`) before rd is written.
ExecLoad(h, d) ==
    LET addr == Add(get_register(h, d.rs1), d.imm)
        w == CASE d.funct3 \in {0, 4} -> 1
               [] d.funct3 \in {1, 5} -> 2
               [] d.funct3 \in {2, 6} -> 4
               [] OTHER -> 8
        r == DynBusRead(h.bus, w, addr)
    IN  IF d.funct3 = 7 THEN DefaultArm(h)
        ELSE IF ~r.ok THEN [h |-> h, res |-> r]
        ELSE Done(set_register(h, d.rd, IF d.funct3 <= 2 THEN Sext(r.val, 8 * w) ELSE r.val))

\* execute_instruction: sb, sh, sw, sd return the result of the bus write
ExecStore(h, d) ==
    LET addr == Add(get_register(h, d.rs1), d.imm)
        w == 2 ^ d.funct3
        r == DynBusWrite(h.bus, w, addr, Trunc(get_register(h, d.rs2), 8 * w))
    IN  IF d.funct3 > 3 THEN DefaultArm(h)
        ELSE [h |-> [h EXCEPT !.bus = r.devs], res |-> r.res]

\* a branch whose target is not taken back by the instruction's size
ExecBranchAhead(h, d, ins) ==
    LET a == get_register(h, d.rs1)
        b == get_register(h, d.rs2)
        target == Add(h.pc, d.imm)
        taken == CASE d.funct3 = 0 -> a = b
                   [] d.funct3 = 1 -> a # b
                   [] d.funct3 = 4 -> SLt(a, b)
                   [] d.funct3 = 5 -> ~SLt(a, b)
                   [] d.funct3 = 6 -> ULt(a, b)
                   [] OTHER -> ~ULt(a, b)
    IN  IF d.funct3 \in {2, 3} THEN DefaultArm(h)
        ELSE Done(IF taken THEN [h EXCEPT !.pc = target] ELSE h)

\* execute_instruction: beq, bne, blt, bge, bltu, bgeu.  pc has been
\* advanced by the fetch, so the target takes the instruction's size off.
ExecBranch(h, d, ins) ==
    LET a == get_register(h, d.rs1)
        b == get_register(h, d.rs2)
        target == Sub(Add(h.pc, d.imm), Bits(ins.size))
        taken == CASE d.funct3 = 0 -> a = b
                   [] d.funct3 = 1 -> a # b
                   [] d.funct3 = 4 -> SLt(a, b)
                   [] d.funct3 = 5 -> ~SLt(a, b)
                   [] d.funct3 = 6 -> ULt(a, b)
                   [] OTHER -> ~ULt(a, b)
    IN  IF d.funct3 \in {2, 3} THEN DefaultArm(h)
        ELSE Done(IF taken THEN [h EXCEPT !.pc = target] ELSE h)

\* execute_instruction: jal, jalr, lui, auipc
ExecJump(h, d, ins) ==
    LET upper == Sext(Shl(d.imm, 12), 32)
    IN  CASE d.opcode = 111 ->
                Done([set_register(h, d.rd, h.pc) EXCEPT
                        !.pc = Sub(Add(h.pc, d.imm), Bits(ins.size))])
          [] d.opcode = 103 /\ d.funct3 = 0 ->
                Done([set_register(h, d.rd, h.pc) EXCEPT
                        !.pc = Trunc(Add(get_register(h, d.rs1), d.imm), 32) \ {0}])
          [] d.opcode = 55 -> Done(set_register(h, d.rd, upper))
          [] d.opcode = 23 -> Done(set_register(h, d.rd, Add(Sub(h.pc, Bits(4)), upper)))
          [] OTHER -> DefaultArm(h)

\* Zicsr arms that all behave as csrrw / csrrwi: the CSR is overwritten with
\* the source whatever the instruction and whatever rs1
ExecCsrWrite(h, d) ==
    LET c == Field(d.imm, 0, 12)
        rdAlways == [h EXCEPT !.registers[d.rd] = IF d.rd = 0 THEN {} ELSE
                                                   IF c \in DOMAIN h.csr THEN h.csr[c] ELSE {}]
        src == IF d.funct3 < 4 THEN rdAlways.registers[d.rs1] ELSE Bits(d.rs1)
    IN  [h |-> [rdAlways EXCEPT !.csr = [j \in DOMAIN h.csr \cup {c} |->
                                           IF j = c THEN src ELSE h.csr[j]]],
         res |-> Ok({})]

\* execute_instruction: the Zicsr arms csrrw, csrrs, csrrc, csrrwi, csrrsi,
\* csrrci, in the order of their statements: rd is written first, and the
\* register forms read rs1 afterwards
ExecCsr(h, d) ==
    LET c == Field(d.imm, 0, 12)
        old == CsrGet(h.csr, c)
        rdAlways == set_register(h, d.rd, old)
        src(g) == IF d.funct3 < 4 THEN get_register(g, d.rs1) ELSE Bits(d.rs1)
        put(g, v) == Done([g EXCEPT !.csr = CsrSet(g.csr, c, v)])
    IN  CASE d.funct3 \in {1, 5} -> put(rdAlways, src(rdAlways))
          [] d.funct3 \in {2, 6} ->
                IF d.rs1 # 0 THEN put(rdAlways, old \cup src(rdAlways)) ELSE Done(rdAlways)
          [] d.funct3 \in {3, 7} ->
                IF d.rs1 # 0 THEN put(rdAlways, old \ src(rdAlways)) ELSE Done(rdAlways)
          [] OTHER -> DefaultArm(h)

\* execute_instruction: the AMO arms (opcode 0101111, funct3 2 for .W and 3
\* for .D).  amoswap copies rd into rs2 first; rd is written before the store.
ExecAmo(h, d, ins) ==
    LET w == IF d.funct3 = 2 THEN 4 ELSE 8
        funct5 == d.funct7 \div 4
        addr == get_register(h, d.rs1)
        r == DynBusRead(h.bus, w, addr)
        val == r.val
        rs2val == Trunc(get_register(h, d.rs2), 8 * w)
        less == SLt(Sext(val, 8 * w), Sext(rs2val, 8 * w))
        new == CASE funct5 = 1 -> rs2val
                 [] funct5 = 0 -> Trunc(Add(val, rs2val), 8 * w)
                 [] funct5 = 12 -> val \cap rs2val
                 [] funct5 = 8 -> val \cup rs2val
                 [] funct5 = 4 -> Xor(val, rs2val)
                 [] funct5 = 20 -> IF less THEN rs2val ELSE val
                 [] funct5 = 16 -> IF less THEN val ELSE rs2val
                 [] funct5 = 28 -> IF ULt(val, rs2val) THEN rs2val ELSE val
                 [] OTHER -> IF ULt(val, rs2val) THEN val ELSE rs2val
        swapped == IF funct5 = 1 THEN set_register(h, d.rs2, get_register(h, d.rd)) ELSE h
        loaded == set_register(swapped, d.rd, IF w = 4 THEN Sext(val, 32) ELSE val)
        st == DynBusWrite(h.bus, w, addr, new)
    IN  IF d.funct3 \notin {2, 3} THEN DefaultArm(h)
        ELSE IF ~r.ok THEN [h |-> h, res |-> r]
        ELSE IF funct5 \notin {1, 0, 12, 8, 4, 20, 16, 28, 24}
             THEN Fail(h, "IllegalOpcode", ins.word)
        ELSE [h |-> [loaded EXCEPT !.bus = st.devs], res |-> st.res]

(***************************************************************************)
(* The SBI environment (see.rs).  io is what the console does for this     *)
(* call: the byte it delivers, or -1 when the stream fails.                *)
(***************************************************************************)
SBI_IMPL_VERSION == 1
ARG0 == 10
ARG1 == 11
FID == 16
EID == 17

\* `error as u64` for the negative error code -n
SbiError(n) == Not(Bits(n - 1))

\* the extension id 0x53525354 "SRST"
SRST == Shl(Bits(21330), 16) \cup Bits(21332)

\* Hart::reset and Hart::stop
start_pc == Bits(0)
reset(h) == [h EXCEPT !.pc = start_pc, !.registers = [r \in 0..31 |-> {}]]
halt(h) == [h EXCEPT !.stop = TRUE]

SbiOk(h, v) == [h |-> h, ok |-> TRUE, val |-> v]
SbiErr(h, n) == [h |-> h, ok |-> FALSE, val |-> SbiError(n)]

\* sbi_system_reset
sbi_system_reset(h, reset_type, reset_reason) ==
    IF ~(\/ reset_reason \in {{}, {0}}
         \/ /\ reset_reason \subseteq 0..31
            /\ {29, 30, 31} \subseteq reset_reason)
    THEN SbiErr(h, 3)
    ELSE CASE reset_type = {} -> SbiOk(halt(h), {})
           [] reset_type \in {{0}, {1}} -> SbiOk(reset(h), {})
           [] OTHER -> SbiErr(h, 2)

\* call_0_1: the legacy extensions; the result or the error goes to a0
call_0_1(h, io) ==
    LET func == get_register(h, EID)
        a0 == get_register(h, ARG0)
        result == CASE func = Bits(1) ->
                          IF ~(a0 \subseteq 0..7) THEN SbiErr(h, 3)
                          ELSE IF io < 0 THEN SbiErr(h, 1) ELSE SbiOk(h, {})
                    [] func = Bits(2) -> IF io < 0 THEN SbiErr(h, 1) ELSE SbiOk(h, Bits(io))
                    [] func = Bits(8) -> SbiOk(halt(h), {})
                    [] OTHER -> SbiErr(h, 2)
    IN  set_register(result.h, ARG0, result.val)

\* an SBI dispatch that knows no function and answers InvalidParam (-3)
call_0_2_InvalidParam(h) == set_register(h, ARG0, SbiError(3))

\* call_0_2: (EID, FID) dispatch; a0 is the error code and a1 the value
call_0_2(h) ==
    LET eid == get_register(h, EID)
        fid == get_register(h, FID)
        a0 == get_register(h, ARG0)
        base(n) == eid = Bits(16) /\ fid = Bits(n)
        result == CASE base(0) -> SbiOk(h, {24})
                    [] base(1) -> SbiOk(h, 0..31)
                    [] base(2) -> SbiOk(h, Bits(SBI_IMPL_VERSION))
                    [] base(3) -> SbiOk(h, IF a0 \in {Bits(1), Bits(2), Bits(16)}
                                           THEN {0} ELSE {})
                    [] base(4) -> SbiOk(h, {})
                    [] base(5) -> SbiOk(h, {0})
                    [] base(6) -> SbiOk(h, Bits(SBI_IMPL_VERSION))
                    [] eid = SRST /\ fid = {} ->
                          sbi_system_reset(h, a0, get_register(h, ARG1))
                    [] OTHER -> SbiErr(h, 2)
    IN  IF result.ok
        THEN set_register(set_register(result.h, ARG0, {}), ARG1, result.val)
        ELSE set_register(result.h, ARG0, result.val)

\* see::call: EIDs 0x00 ..= 0x0F are the legacy calls
call(h, io) ==
    IF get_register(h, EID) \subseteq 0..3 THEN call_0_1(h, io) ELSE call_0_2(h)

(***************************************************************************)
(* Hart::execute_instruction, Hart::fetch_instruction and Hart::tick.      *)
(***************************************************************************)
\* execute_instruction: the match on the decoded format.  The arms of one
\* opcode are grouped in one operator; what no arm matches takes the default
\* arm, Err(MemoryFault(pc)).
execute_instruction(h, d, ins, io) ==
    CASE d.f = "R" /\ d.opcode \in {51, 59} -> ExecAluR(h, d)
      [] d.f = "I" /\ d.opcode \in {19, 27} -> ExecAluI(h, d)
      [] d.f = "I" /\ d.opcode = 3 -> ExecLoad(h, d)
      [] d.f = "S" /\ d.opcode = 35 -> ExecStore(h, d)
      [] d.f = "B" /\ d.opcode = 99 -> ExecBranch(h, d, ins)
      [] d.f \in {"J", "U"} \/ (d.f = "I" /\ d.opcode = 103) -> ExecJump(h, d, ins)
      [] d.f = "I" /\ d.opcode = 15 /\ d.rd = 0 /\ d.rs1 = 0
           /\ (d.funct3 = 0 \/ (d.funct3 = 1 /\ d.imm = {})) -> Done(h)
      [] d.f = "I" /\ d.opcode = 115 /\ d.funct3 = 0 /\ d.imm = {} -> Done(call(h, io))
      [] d.f = "I" /\ d.opcode = 115 /\ d.funct3 = 0 /\ d.imm = {0} -> Done(halt(h))
      [] d.f = "I" /\ d.opcode = 115 -> ExecCsr(h, d)
      [] d.f = "R" /\ d.opcode = 115 /\ d.funct3 = 0 -> Done(h)
      [] d.f = "R" /\ d.opcode = 47 -> ExecAmo(h, d, ins)
      [] OTHER -> DefaultArm(h)

\* no instruction was fetched
NoIns == [size |-> 0, word |-> {}]

\* fetch_instruction: reads a word at pc; its two low bits tell a 32-bit
\* instruction (pc += 4) from a compressed one, read again as a half (pc += 2)
fetch_instruction(h) ==
    LET word == DynBusRead(h.bus, 4, h.pc)
        half == DynBusRead(h.bus, 2, h.pc)
    IN  IF ~word.ok THEN [h |-> h, res |-> word, ins |-> NoIns]
        ELSE IF {0, 1} \subseteq word.val
             THEN [h |-> [h EXCEPT !.pc = Add(h.pc, Bits(4))], res |-> Ok({}),
                   ins |-> IRV32(word.val)]
        ELSE IF ~half.ok THEN [h |-> h, res |-> half, ins |-> NoIns]
        ELSE [h |-> [h EXCEPT !.pc = Add(h.pc, Bits(2))], res |-> Ok({}),
              ins |-> CRV32(half.val)]

\* the counting of a tick that forgets MINSTRET
CountCyclesOnly(c) == CsrSet(c, MCYCLE, Add(CsrGet(c, MCYCLE), Bits(3)))

\* tick, "simulate passing of time": MCYCLE += 3 and MINSTRET += 1
CountTick(c) ==
    LET cycled == CsrSet(c, MCYCLE, Add(CsrGet(c, MCYCLE), Bits(3)))
    IN  CsrSet(cycled, MINSTRET, Add(CsrGet(cycled, MINSTRET), Bits(1)))

\* tick, "simulate passing of time": the tick is counted whatever the
\* result x of the instruction, which is returned
Counted(x, ins) ==
    [h |-> [x.h EXCEPT !.csr = CountTick(x.h.csr)], res |-> x.res, ins |-> ins]

\* tick, the and_then chain over the fetch f and the decoding d
Executed(f, d, io) ==
    IF ~f.res.ok THEN [h |-> f.h, res |-> f.res]
    ELSE IF d.f = "none" THEN Fail(f.h, "IllegalOpcode", f.ins.word)
    ELSE execute_instruction(f.h, d, f.ins, io)

Decoded(f, io) == Counted(Executed(f, decode(f.ins), io), f.ins)

\* tick, past the stop check: fetch, decode and execute, then count the tick
Retire(h, io) == Decoded(fetch_instruction(h), io)

\* a tick that does not look at the stop flag
tick_running(h, io) == Retire(h, io)

\* Hart::tick: Err(Halt) at once when the hart is stopped
tick(h, io) ==
    IF h.stop THEN [h |-> h, res |-> Err("Halt", {}), ins |-> NoIns] ELSE Retire(h, io)

\* Emulator::handle_cmd, SetRegisters(regs): regs[0] is the pc (Hart::set_pc),
\* regs[1 ..= 32] go through set_register one by one (sequences count from 1)
SetRegisters(h, regs) ==
    [h EXCEPT !.pc = regs[1],
              !.registers = [r \in 0..31 |-> set_register(h, r, regs[r + 2]).registers[r]]]

(***************************************************************************)
(* Interrupt arbitration (clint.rs).                                       *)
(***************************************************************************)
\* enum InterruptType, in the order pending_interrupt tests its members:
\* MEIP, SEIP, UEIP, MTIP, STIP, UTIP, MSIP, SSIP, USIP
InterruptType == <<11, 9, 8, 7, 5, 4, 3, 1, 0>>

\* pending_interrupt: the first member n with (mip & mie) >> n == 1, or -1
\* for None
pending_interrupt(mip, mie) ==
    LET ip == mip \cap mie
        hits == {k \in DOMAIN InterruptType : Shr(ip, InterruptType[k]) = {0}}
    IN  IF hits = {} THEN -1
        ELSE InterruptType[CHOOSE k \in hits : \A j \in hits : k <= j]

\* interrupt(hart): mstatus, mip and mie are the hart's CSRs, msip and eip the
\* results of the two bus reads (CLINT msip, PLIC pending word), both
\* unwrapped.  The result is None, Some(mcause) or a panic.
interrupt(mstatus, mip, mie, msip, eip) ==
    LET with_msip == mip \cup msip.val
        with_eip == IF eip.val # {} THEN with_msip \cup {11, 9} ELSE with_msip
        type == pending_interrupt(with_eip, mie)
    IN  IF 3 \notin mstatus THEN [kind |-> "None", val |-> {}]
        ELSE IF ~msip.ok \/ ~eip.ok THEN [kind |-> "panic", val |-> {}]
        ELSE IF type < 0 THEN [kind |-> "None", val |-> {}]
        ELSE [kind |-> "Some", val |-> {63} \cup Bits(type)]

(***************************************************************************)
(* RTC (rtc.rs).  now is the time elapsed since start, in nanoseconds;     *)
(* mtimecmp is the value get_timer returns (Duration::from_nanos and       *)
(* as_nanos are exact on a u64, and Duration::MAX reads as 2^64 - 1).      *)
(***************************************************************************)
MTIMECMP_ADDR == 0
MTIMECMP_ADDRH == 4
MTIME_ADDR == 8
MTIME_ADDRH == 12

\* Rtc::new
RtcNew == [kind |-> "rtc", now |-> {}, mtimecmp |-> 0..63, mtimecmptmp |-> 0..63]

\* Rtc::write_double / write_word / write_half / write_byte
RtcWrite(d, w, addr, val) ==
    CASE w = 8 /\ addr = Bits(MTIMECMP_ADDR) ->
            [dev |-> [d EXCEPT !.mtimecmp = val], res |-> Ok({})]
      [] w = 4 /\ addr = Bits(MTIMECMP_ADDR) ->
            [dev |-> [d EXCEPT !.mtimecmptmp = Trunc(val, 32)], res |-> Ok({})]
      [] w = 4 /\ addr = Bits(MTIMECMP_ADDRH) ->
            [dev |-> [d EXCEPT !.mtimecmp =
                         Trunc(d.mtimecmptmp, 32) \cup Shl(Trunc(val, 32), 32)],
             res |-> Ok({})]
      [] w \in {1, 2} -> [dev |-> d, res |-> Err("Unaligned", addr)]
      [] OTHER -> [dev |-> d, res |-> Err("MemoryFault", addr)]

\* Rtc::read_double / read_word / read_half / read_byte
RtcRead(d, w, addr) ==
    CASE w = 8 /\ addr = Bits(MTIMECMP_ADDR) -> Ok(d.mtimecmp)
      [] w = 8 /\ addr = Bits(MTIME_ADDR) -> Ok(d.now)
      [] w = 4 /\ addr = Bits(MTIMECMP_ADDR) -> Ok(Trunc(d.mtimecmp, 32))
      [] w = 4 /\ addr = Bits(MTIMECMP_ADDRH) -> Ok(Shr(d.mtimecmp, 32))
      [] w = 4 /\ addr = Bits(MTIME_ADDR) -> Ok(Trunc(d.now, 32))
      [] w = 4 /\ addr = Bits(MTIME_ADDRH) -> Ok(Shr(d.now, 32))
      [] w \in {1, 2} -> Err("Unaligned", addr)
      [] OTHER -> Err("MemoryFault", addr)

(***************************************************************************)
(* PLIC (plic.rs).  sources and contexts are the two HashMaps: functions   *)
(* whose domain is the set of keys present; entry(k).or_default() inserts  *)
(* the default value under a key that is absent, on reads as on writes.    *)
(* Addresses are device-local byte offsets (naturals); values are u32.     *)
(***************************************************************************)
NoEntries == [k \in {} |-> {}]
DefaultSource == [priority |-> {}, interrupts |-> {}]
DefaultContext == [claimed |-> FALSE, threshold |-> {}, enabled |-> NoEntries]

\* HashMap::entry(k).or_default()
OrDefault(map, k, default) == IF k \in DOMAIN map THEN map ELSE map @@ (k :> default)

\* Plic::new
PlicNew == [kind |-> "plic", sources |-> NoEntries, contexts |-> NoEntries]

SetSource(p, k, field, v) ==
    [p EXCEPT !.sources = [OrDefault(@, k, DefaultSource) EXCEPT ![k][field] = v]]
SetContext(p, k, field, v) ==
    [p EXCEPT !.contexts = [OrDefault(@, k, DefaultContext) EXCEPT ![k][field] = v]]

fire_interrupt(p, source, bits) == SetSource(p, source, "interrupts", bits)
set_source_priority(p, source, priority) == SetSource(p, source, "priority", priority)
set_priority_threshold(p, context, threshold) == SetContext(p, context, "threshold", threshold)
claim_interrupt(p, context) == SetContext(p, context, "claimed", TRUE)
complete_interrupt(p, context, id) == SetContext(p, context, "claimed", FALSE)
set_source_enabled(p, context, bit_offset, source_bits) ==
    [p EXCEPT !.contexts =
        [OrDefault(@, context, DefaultContext) EXCEPT ![context].enabled =
            [OrDefault(@, bit_offset \div 16, {}) EXCEPT ![bit_offset \div 16] = source_bits]]]

\* the getters insert the default entries they look up
TouchSource(p, k) == [p EXCEPT !.sources = OrDefault(@, k, DefaultSource)]
TouchContext(p, k) == [p EXCEPT !.contexts = OrDefault(@, k, DefaultContext)]
TouchEnabled(p, context, x) ==
    [p EXCEPT !.contexts =
        [OrDefault(@, context, DefaultContext) EXCEPT ![context].enabled = OrDefault(@, x, {})]]

\* Plic::write_word
PlicWriteWord(p, a, val) ==
    CASE a <= 4092 -> set_source_priority(p, a \div 4, val)
      [] a >= 4096 /\ a <= 4220 -> fire_interrupt(p, (a - 4096) \div 4, val)
      [] a >= 8192 /\ a <= 2039804 ->
            set_source_enabled(p, (a - 8192) \div 128, (((a - 8192) % 128) \div 4) * 32, val)
      [] a >= 2097152 /\ a <= 67104768 /\ a % 8 = 0 ->
            set_priority_threshold(p, (a - 2097152) \div 4096, val)
      [] a >= 2097152 /\ a <= 67104768 /\ a % 8 = 4 ->
            complete_interrupt(p, (a - 2097156) \div 4096, val)
      [] OTHER -> p

\* Plic::write_double / write_word / write_half / write_byte
PlicWrite(p, w, a, val) ==
    CASE w = 8 -> [dev |-> p, res |-> Ok({})]
      [] w = 4 -> [dev |-> PlicWriteWord(p, a, Trunc(val, 32)), res |-> Ok({})]
      [] OTHER -> [dev |-> p, res |-> Err("Unimplemented", {})]

\* Plic::read_word
PlicReadWord(p, a) ==
    CASE a <= 4092 ->
            [dev |-> TouchSource(p, a \div 4),
             res |-> Ok(OrDefault(p.sources, a \div 4, DefaultSource)[a \div 4].priority)]
      [] a >= 8192 /\ a <= 2039804 ->
            \* get_source_enabled
            [dev |-> TouchEnabled(p, (a - 8192) \div 128, (((a - 8192) % 128) \div 4) * 2),
             res |-> Ok(OrDefault(OrDefault(p.contexts, (a - 8192) \div 128,
                                            DefaultContext)[(a - 8192) \div 128].enabled,
                                  (((a - 8192) % 128) \div 4) * 2,
                                  {})[(((a - 8192) % 128) \div 4) * 2])]
      [] a >= 2097152 /\ a <= 67104768 /\ a % 8 = 0 ->
            \* get_priority_threshold
            [dev |-> TouchContext(p, (a - 2097152) \div 4096),
             res |-> Ok(OrDefault(p.contexts, (a - 2097152) \div 4096,
                                  DefaultContext)[(a - 2097152) \div 4096].threshold)]
      [] a >= 2097152 /\ a <= 67104768 /\ a % 8 = 4 ->
            [dev |-> claim_interrupt(p, (a - 2097156) \div 4096), res |-> Ok({})]
      [] OTHER -> [dev |-> p, res |-> Err("Unimplemented", {})]

\* Plic::read_double: the low word, then the high word, each with its effect
PlicReadHigh(lo, hi) ==
    IF hi.res.ok THEN [dev |-> hi.dev, res |-> Ok(lo.res.val \cup Shl(hi.res.val, 32))]
    ELSE hi
PlicReadDouble(lo, a) == IF lo.res.ok THEN PlicReadHigh(lo, PlicReadWord(lo.dev, a + 4)) ELSE lo

\* Plic::read_double / read_word / read_half / read_byte
PlicRead(p, w, a) ==
    CASE w = 8 -> PlicReadDouble(PlicReadWord(p, a), a)
      [] w = 4 -> PlicReadWord(p, a)
      [] OTHER -> [dev |-> p, res |-> Err("Unimplemented", {})]

(***************************************************************************)
(* VirtIO-MMIO block device (virtio/mod.rs, virtio/blk.rs).  bus is the    *)
(* part of the DynBus the device reaches guest memory through; file is the *)
(* backing file's bytes.  An unwrap() of an Err, an index out of bounds    *)
(* and an arithmetic overflow of a debug build end the handler with        *)
(* "panic"; a loop that cannot end with "hang".  release tells whether     *)
(* the build wraps on overflow (release) or panics (debug).                *)
(***************************************************************************)
RegisterMagicValue == 0
RegisterVersion == 4
RegisterDeviceID == 8
RegisterVendorID == 12
RegisterDeviceFeatures == 16
RegisterDeviceFeaturesSel == 20
RegisterDriverFeatures == 32
RegisterDriverFeaturesSel == 36
RegisterQueueSel == 48
RegisterQueueSizeMax == 52
RegisterQueueSize == 56
RegisterQueueReady == 68
RegisterQueueNotify == 80
RegisterStatus == 112
RegisterQueueDescLow == 128
RegisterQueueDescHigh == 132
RegisterQueueDriverLow == 144
RegisterQueueDriverHigh == 148
RegisterQueueDeviceLow == 160
RegisterQueueDeviceHigh == 164
RegisterConfigGeneration == 252
RegisterConfig == 256

ACKNOWLEDGE == 1
DRIVER == 2
DRIVER_OK == 4
FEATURES_OK == 8
DEVICE_NEEDS_RESET == 64

VirtqDescNEXT == 1
VirtqDescWRITE == 2

MAX_QUEUES == 16
SectorSize == 512

NewQueue == [ready |-> FALSE, size |-> {}, desc |-> {}, driver |-> {}, device |-> {}]

\* BlkDevice::new over a backing file holding the bytes file
BlkNew(file) ==
    [kind |-> "blk", file |-> file,
     capacity |-> Bits((Len(file) \div SectorSize) + 1),
     state |-> [DeviceFeatures |-> {32, 1, 2, 5, 6}, DriverFeatures |-> {},
                DeviceFeaturesSel |-> "Low", DriverFeaturesSel |-> "Low",
                status |-> {}, queue_idx |-> {}],
     queues |-> [q \in 1..MAX_QUEUES |-> NewQueue]]

Panic(bus) == [devs |-> bus, res |-> Err("panic", {})]
Returned(bus) == [devs |-> bus, res |-> Ok({})]

\* the four reads that make a VirtqDesc of the 16 bytes at a
GetDescAt(bus, a) ==
    [addr |-> DynBusRead(bus, 8, a), len |-> DynBusRead(bus, 4, Add(a, Bits(8))),
     flags |-> DynBusRead(bus, 2, Add(a, Bits(12))),
     next |-> DynBusRead(bus, 2, Add(a, Bits(14)))]
DescOk(d) == d.addr.ok /\ d.len.ok /\ d.flags.ok /\ d.next.ok

\* BlkDevice::get_desc
get_desc(bus, queue, desc_idx) == GetDescAt(bus, Add(queue.desc, Shl(desc_idx, 4)))

\* BlkDevice::get_desc_rw_size: how the loop ends (its sums are only logged)
RECURSIVE RwSizeFrom(_, _, _, _)
RwSizeNext(bus, queue, d, seen) ==
    IF ~DescOk(d) THEN "panic"
    ELSE IF Bits(VirtqDescNEXT) \subseteq d.flags.val THEN "ok"
    ELSE IF d.next.val \in seen THEN "hang"
    ELSE RwSizeFrom(bus, queue, d.next.val, seen)
RwSizeFrom(bus, queue, desc_idx, seen) ==
    RwSizeNext(bus, queue, get_desc(bus, queue, desc_idx), seen \cup {desc_idx})
get_desc_rw_size(bus, queue, desc_idx) == RwSizeFrom(bus, queue, desc_idx, {})

\* recv_request, RequestType::In: the bytes read from the file are stored in
\* guest memory one by one
RECURSIVE WriteBytes(_, _, _, _, _, _)
WriteBytesNext(r, addr, file, off, i, len) ==
    IF r.res.ok THEN WriteBytes(r.devs, addr, file, off, i, len) ELSE Panic(r.devs)
WriteBytes(bus, addr, file, off, i, len) ==
    IF i = len THEN Returned(bus)
    ELSE WriteBytesNext(DynBusWrite(bus, 1, Add(addr, Bits(i)), Bits(file[off + i + 1])),
                        addr, file, off, i + 1, len)

\* read_exact_at of len bytes at byte offset off, then the stores
ReadIn(bus, file, off, addr, len) ==
    IF (\E i \in off : i > 30) \/ NatOf(off) + len > Len(file) THEN Panic(bus)
    ELSE WriteBytes(bus, addr, file, NatOf(off), 0, len)

\* recv_request: the status descriptor is read again at hdr_desc.next and its
\* byte read, not written
RecvStatus(bus, status_desc) ==
    IF DescOk(status_desc) /\ DynBusRead(bus, 1, status_desc.addr.val).ok
    THEN Returned(bus) ELSE Panic(bus)
RecvDone(r, queue, next) ==
    IF r.res.ok THEN RecvStatus(r.devs, get_desc(r.devs, queue, next)) ELSE r
RecvBuf(bus, blk, queue, next, typ, sector_num, buf_desc) ==
    IF ~DescOk(buf_desc) THEN Panic(bus)
    ELSE RecvDone(IF typ = {}
                  THEN ReadIn(bus, blk.file, Shl(sector_num, 9), buf_desc.addr.val,
                              NatOf(buf_desc.len.val))
                  ELSE Returned(bus),
                  queue, next)
RecvHeader(bus, blk, queue, hdr_desc, typ, ioprio, sector_num) ==
    IF ~typ.ok \/ typ.val \notin {{}, {0}} \/ ~ioprio.ok \/ ~sector_num.ok THEN Panic(bus)
    ELSE RecvBuf(bus, blk, queue, hdr_desc.next.val, typ.val, sector_num.val,
                 get_desc(bus, queue, hdr_desc.next.val))
RecvDesc(bus, blk, queue, hdr_desc) ==
    IF ~DescOk(hdr_desc) THEN Panic(bus)
    ELSE RecvHeader(bus, blk, queue, hdr_desc,
                    DynBusRead(bus, 4, hdr_desc.addr.val),
                    DynBusRead(bus, 4, Add(hdr_desc.addr.val, Bits(4))),
                    DynBusRead(bus, 8, Add(hdr_desc.addr.val, Bits(8))))

\* BlkDevice::recv_request
recv_request(bus, blk, queue, head_idx) == RecvDesc(bus, blk, queue, get_desc(bus, queue, head_idx))

\* QueueNotify: the walk over the descriptors from queue.desc on, adding
\* 16 * next to the address until a next of 0 is read
RECURSIVE WalkOk(_, _)
WalkNext(bus, addr, d) ==
    DescOk(d) /\ (d.next.val = {} \/ WalkOk(bus, Add(addr, Shl(d.next.val, 4))))
WalkOk(bus, addr) == WalkNext(bus, addr, GetDescAt(bus, addr))

\* QueueNotify: the reads of a ring's flags, idx and of queue.size halfwords
RingOk(bus, baddr, size) ==
    /\ DynBusRead(bus, 2, baddr).ok /\ DynBusRead(bus, 2, Add(baddr, Bits(2))).ok
    /\ \A i \in 0..(NatOf(size) - 1) : DynBusRead(bus, 2, Add(baddr, Bits(4 + i))).ok

\* QueueNotify: the loop `while current_idx != avail_idx`, n counting the
\* calls of recv_request
RECURSIVE NotifyLoop(_, _, _, _, _, _, _)
NotifyRecv(r, blk, queue, current_idx, avail_idx, release, n) ==
    IF r.res.ok THEN NotifyLoop(r.devs, blk, queue, current_idx, avail_idx, release, n)
    ELSE [devs |-> r.devs, res |-> r.res, n |-> n]
NotifySized(bus, blk, queue, current_idx, avail_idx, release, n, head_idx, sized) ==
    IF sized # "ok" THEN [devs |-> bus, res |-> Err(sized, {}), n |-> n]
    ELSE NotifyRecv(recv_request(bus, blk, queue, head_idx), blk, queue,
                    current_idx + 1, avail_idx, release, n + 1)
NotifyHead(bus, blk, queue, current_idx, avail_idx, release, n, head_idx) ==
    IF ~head_idx.ok THEN [devs |-> bus, res |-> Err("panic", {}), n |-> n]
    ELSE NotifySized(bus, blk, queue, current_idx, avail_idx, release, n, head_idx.val,
                     get_desc_rw_size(bus, queue, head_idx.val))
NotifyLoop(bus, blk, queue, current_idx, avail_idx, release, n) ==
    IF current_idx = avail_idx THEN [devs |-> bus, res |-> Ok({}), n |-> n]
    ELSE IF queue.size = {} /\ ~release THEN [devs |-> bus, res |-> Err("panic", {}), n |-> n]
    ELSE NotifyHead(bus, blk, queue, current_idx, avail_idx, release, n,
                    DynBusRead(bus, 2,
                               Add(queue.driver,
                                   Add(Bits(4),
                                       Shl(Bits(current_idx) \cap Sub(queue.size, {0}), 1)))))

\* QueueNotify with the queue it names
NotifyQueue(bus, blk, queue, release) ==
    IF ~(WalkOk(bus, queue.desc) /\ RingOk(bus, queue.driver, queue.size)
         /\ RingOk(bus, queue.device, queue.size))
    THEN [devs |-> bus, res |-> Err("panic", {}), n |-> 0]
    ELSE NotifyLoop(bus, blk, queue, 0,
                    NatOf(DynBusRead(bus, 2, Add(queue.driver, Bits(2))).val), release, 0)

\* queues[i]: the position in the vector, 0 when the index is out of bounds
QueueAt(i) == IF (\A b \in i : b < 31) /\ NatOf(i) < MAX_QUEUES THEN NatOf(i) + 1 ELSE 0

\* write_word, Register::Status
StatusWrite(status, val) ==
    IF Bits(DEVICE_NEEDS_RESET) \subseteq val THEN {}
    ELSE status \cup (val \cap Bits(ACKNOWLEDGE + DRIVER + FEATURES_OK + DRIVER_OK))

\* write_word, the registers of the selected queue
SetQueue(bus, blk, q, field, v) ==
    IF q = 0 THEN [devs |-> bus, dev |-> blk, res |-> Err("panic", {}), n |-> 0]
    ELSE [devs |-> bus, dev |-> [blk EXCEPT !.queues[q][field] = v], res |-> Ok({}), n |-> 0]
SetQueueHigh(bus, blk, q, field, val) ==
    IF q = 0 THEN [devs |-> bus, dev |-> blk, res |-> Err("panic", {}), n |-> 0]
    ELSE SetQueue(bus, blk, q, field, blk.queues[q][field] \cup Shl(val, 32))
\* QueueDescHigh reads the descriptor at the new address to log it
SetDescHigh(r) ==
    IF r.res.ok /\ ~DescOk(GetDescAt(r.devs, r.dev.queues[QueueAt(r.dev.state.queue_idx)].desc))
    THEN [r EXCEPT !.res = Err("panic", {})] ELSE r
SetState(bus, blk, field, v) ==
    [devs |-> bus, dev |-> [blk EXCEPT !.state[field] = v], res |-> Ok({}), n |-> 0]
Notified(blk, r) == [devs |-> r.devs, dev |-> blk, res |-> r.res, n |-> r.n]

\* BlkDevice::write_word
BlkWriteWord(bus, blk, a, val, release) ==
    CASE a = RegisterDeviceFeaturesSel ->
            SetState(bus, blk, "DeviceFeaturesSel", IF val = {0} THEN "High" ELSE "Low")
      [] a = RegisterDriverFeaturesSel ->
            SetState(bus, blk, "DriverFeaturesSel", IF val = {0} THEN "High" ELSE "Low")
      [] a = RegisterDriverFeatures ->
            SetState(bus, blk, "DriverFeatures",
                     IF blk.state.DriverFeaturesSel = "Low" THEN val
                     ELSE blk.state.DriverFeatures \cup Shl(val, 32))
      [] a = RegisterStatus -> SetState(bus, blk, "status", StatusWrite(blk.state.status, val))
      [] a = RegisterQueueSel -> SetState(bus, blk, "queue_idx", val)
      [] a = RegisterQueueReady ->
            SetQueue(bus, blk, QueueAt(blk.state.queue_idx), "ready", val # {})
      [] a = RegisterQueueSize -> SetQueue(bus, blk, QueueAt(blk.state.queue_idx), "size", val)
      [] a = RegisterQueueNotify ->
            IF QueueAt(val) = 0 THEN [devs |-> bus, dev |-> blk, res |-> Err("panic", {}), n |-> 0]
            ELSE Notified(blk, NotifyQueue(bus, blk, blk.queues[QueueAt(val)], release))
      [] a = RegisterQueueDescLow -> SetQueue(bus, blk, QueueAt(blk.state.queue_idx), "desc", val)
      [] a = RegisterQueueDescHigh ->
            SetDescHigh(SetQueueHigh(bus, blk, QueueAt(blk.state.queue_idx), "desc", val))
      [] a = RegisterQueueDriverLow ->
            SetQueue(bus, blk, QueueAt(blk.state.queue_idx), "driver", val)
      [] a = RegisterQueueDriverHigh ->
            SetQueueHigh(bus, blk, QueueAt(blk.state.queue_idx), "driver", val)
      [] a = RegisterQueueDeviceLow ->
            SetQueue(bus, blk, QueueAt(blk.state.queue_idx), "device", val)
      [] a = RegisterQueueDeviceHigh ->
            SetQueueHigh(bus, blk, QueueAt(blk.state.queue_idx), "device", val)
      [] OTHER -> [devs |-> bus, dev |-> blk, res |-> Err("Unimplemented", {}), n |-> 0]

\* BlkDevice::write_double / write_word / write_half / write_byte
BlkWrite(bus, blk, w, a, val, release) ==
    IF w = 4 THEN BlkWriteWord(bus, blk, a, Trunc(val, 32), release)
    ELSE [devs |-> bus, dev |-> blk, res |-> Err("Unimplemented", {}), n |-> 0]

\* BlkDevice::read_word
BlkReadWord(blk, a) ==
    CASE a = RegisterMagicValue -> Ok(Bits(26998) \cup Shl(Bits(29810), 16))
      [] a = RegisterVersion -> Ok(Bits(2))
      [] a = RegisterDeviceID -> Ok(Bits(2))
      [] a = RegisterVendorID -> Ok(Bits(6900))
      [] a = RegisterDeviceFeatures ->
            Ok(IF blk.state.DeviceFeaturesSel = "Low" THEN Trunc(blk.state.DeviceFeatures, 32)
               ELSE Shr(blk.state.DeviceFeatures, 32))
      [] a = RegisterStatus -> Ok(blk.state.status)
      [] a >= RegisterConfig ->
            CASE a - RegisterConfig = 0 -> Ok(Trunc(blk.capacity, 32))
              [] a - RegisterConfig = 4 -> Ok(Shr(blk.capacity, 32))
              [] a - RegisterConfig \in {8, 20, 28} -> Ok(Bits(SectorSize))
              [] a - RegisterConfig = 12 -> Ok(Bits(1))
              [] a - RegisterConfig \in {36, 40, 44, 48, 52, 60, 64, 68, 72, 76, 80, 84, 88, 92} ->
                    Ok({})
              [] OTHER -> Err("Unimplemented", {})
      [] a = RegisterConfigGeneration -> Ok(Bits(48879) \cup Shl(Bits(57005), 16))
      [] a = RegisterQueueReady ->
            IF QueueAt(blk.state.queue_idx) = 0 THEN Err("panic", {})
            ELSE Ok(IF blk.queues[QueueAt(blk.state.queue_idx)].ready THEN {0} ELSE {})
      [] a = RegisterQueueSizeMax -> Ok(Bits(MAX_QUEUES))
      [] OTHER -> Err("Unimplemented", {})

\* BlkDevice::read_double / read_half / read_byte: `addr - 0x100` first
BlkReadConfig(w, c) ==
    CASE w = 8 /\ c = 0 -> Ok(Bits(1))
      [] w = 2 /\ c = 34 -> Ok(Bits(4))
      [] w = 2 /\ c = 26 -> Ok(Bits(1))
      [] w = 2 /\ c = 56 -> Ok({})
      [] w = 1 /\ c = 32 -> Ok({})
      [] w = 1 /\ c = 24 -> Ok(Bits(1))
      [] w = 1 /\ c = 25 -> Ok({})
      [] OTHER -> Err("Unimplemented", {})

\* BlkDevice::read_double / read_word / read_half / read_byte
BlkRead(blk, w, a, release) ==
    IF w = 4 THEN BlkReadWord(blk, a)
    ELSE IF a >= RegisterConfig THEN BlkReadConfig(w, a - RegisterConfig)
    ELSE IF release THEN Err("Unimplemented", {}) ELSE Err("panic", {})

(***************************************************************************)
(* CLINT (clint.rs).  msip is the one AtomicBool shared by every hart's    *)
(* MSIP word; the timer registers are forwarded over the bus to the RTC    *)
(* mapped at rtc_addr, here the device rtc.  Addresses are device-local    *)
(* byte offsets (naturals).                                                *)
(***************************************************************************)
MSIP_HART0_ADDR == 0
MSIP_HART4095_ADDR == 16380
CLINT_MTIME_ADDR == 49144
CLINT_MTIME_ADDRH == 49148
CLINT_MTIMECMP_ADDR == 16384

\* Clint::new
ClintNew == [kind |-> "clint", msip |-> FALSE]

\* Clint::write_double / write_word / write_half / write_byte
ClintWrite(d, rtc, w, a, val) ==
    CASE w = 8 /\ a = CLINT_MTIMECMP_ADDR ->
            [dev |-> d, rtc |-> RtcWrite(rtc, 8, Bits(MTIMECMP_ADDR), val).dev,
             res |-> RtcWrite(rtc, 8, Bits(MTIMECMP_ADDR), val).res]
      [] w = 4 /\ MSIP_HART0_ADDR <= a /\ a < MSIP_HART4095_ADDR ->
            [dev |-> [d EXCEPT !.msip = (Trunc(val, 32) # {})], rtc |-> rtc, res |-> Ok({})]
      [] w \in {1, 2} -> [dev |-> d, rtc |-> rtc, res |-> Err("Unimplemented", {})]
      [] OTHER -> [dev |-> d, rtc |-> rtc, res |-> Ok({})]

\* Clint::read_double / read_word / read_half / read_byte
ClintRead(d, rtc, w, a) ==
    CASE w = 8 /\ a = CLINT_MTIME_ADDR -> RtcRead(rtc, 8, Bits(MTIME_ADDR))
      [] w = 4 /\ MSIP_HART0_ADDR <= a /\ a < MSIP_HART4095_ADDR ->
            Ok(IF d.msip THEN {0} ELSE {})
      [] w = 4 /\ a = CLINT_MTIME_ADDR -> RtcRead(rtc, 4, Bits(MTIME_ADDR))
      [] w = 4 /\ a = CLINT_MTIME_ADDRH -> RtcRead(rtc, 4, Bits(MTIME_ADDRH))
      [] w \in {1, 2} -> Err("Unimplemented", {})
      [] OTHER -> Ok({})

\* BlkDevice::get_desc_rw_size with its sums: acc holds read_size, write_size
\* (u32; the lengths modelled never overflow them) and the descriptors
\* visited, in order.  The loop breaks at a descriptor whose NEXT flag is set
\* and otherwise goes on at desc.next; a descriptor met twice means that the
\* loop never returns.
RECURSIVE RwSumFrom(_, _, _, _)
RwSumCount(d, acc) ==
    IF Bits(VirtqDescWRITE) \subseteq d.flags.val
    THEN [acc EXCEPT !.write = Trunc(Add(@, d.len.val), 32)]
    ELSE [acc EXCEPT !.read = Trunc(Add(@, d.len.val), 32)]
RwSumNext(bus, queue, d, acc) ==
    IF ~DescOk(d) THEN [acc EXCEPT !.end = "panic"]
    ELSE IF Bits(VirtqDescNEXT) \subseteq d.flags.val THEN [RwSumCount(d, acc) EXCEPT !.end = "ok"]
    ELSE IF \E k \in DOMAIN acc.visited : acc.visited[k] = d.next.val
         THEN [RwSumCount(d, acc) EXCEPT !.end = "hang"]
    ELSE RwSumFrom(bus, queue, d.next.val, RwSumCount(d, acc))
RwSumFrom(bus, queue, desc_idx, acc) ==
    RwSumNext(bus, queue, get_desc(bus, queue, desc_idx),
              [acc EXCEPT !.visited = Append(@, desc_idx)])
RwSums(bus, queue, desc_idx) ==
    RwSumFrom(bus, queue, desc_idx, [end |-> "", read |-> {}, write |-> {}, visited |-> <<>>])

(***************************************************************************)
(* State left alone by the specifications that do not use it.              *)
(***************************************************************************)
NoHart ==
    /\ registers = [r \in 0..31 |-> {}] /\ pc = {} /\ csr = <<>> /\ stop = FALSE
    /\ ticks = 0
NoIrq == irq = <<>>
NoOp == [op |-> "new", w |-> 0, addr |-> {}, val |-> {}, res |-> Ok({})]

\* a 64-bit value all of whose bytes differ: 0x8877665544332211
Pattern == UNION {Shl(Bits(17 * (k + 1)), 8 * k) : k \in 0..7}

(***************************************************************************)
(* SpecRam: a stand-alone RAM, written and read at every width and offset. *)
(***************************************************************************)
InitRam ==
    /\ NoHart /\ NoIrq
    /\ devices = <<>>
    /\ ram = RamNew
    /\ last = NoOp
    /\ steps = 0

RamWriteOp(w, a, v) ==
    /\ steps < MaxRamOps
    /\ ram' = RamWrite(ram, w, Bits(a), Trunc(v, 8 * w)).data
    /\ last' = [op |-> "ram_write", w |-> w, addr |-> Bits(a), val |-> Trunc(v, 8 * w),
                res |-> RamWrite(ram, w, Bits(a), Trunc(v, 8 * w)).res]
    /\ steps' = steps + 1
    /\ UNCHANGED <<ticks, registers, pc, csr, stop, devices, irq>>

RamReadOp(w, a) ==
    /\ steps < MaxRamOps
    /\ last' = [op |-> "ram_read", w |-> w, addr |-> Bits(a), val |-> {},
                res |-> RamRead(ram, w, Bits(a))]
    /\ steps' = steps + 1
    /\ UNCHANGED <<ticks, registers, pc, csr, stop, devices, ram, irq>>

NextRam ==
    \/ \E w \in Widths, a \in 0..RamSize : RamWriteOp(w, a, Pattern)
    \/ \E w \in Widths, a \in 0..RamSize : RamReadOp(w, a)

SpecRam == InitRam /\ [][NextRam]_vars

\* C9: for every width w and every offset a with [a, a+w) inside the RAM, a
\* write_w(a, v) succeeds, stores v little-endian in the bytes a .. a+w-1 and
\* leaves every other byte unchanged, so that read_w(a) returns v and a
\* narrower read at a returns the low-order bytes of v; a read changes no byte
\* and returns the little-endian value of the bytes it covers, so the value
\* read back is v as long as no write to [a, a+w) intervenes.
C9_RamWriteReadRoundTrip ==
    [][/\ (last'.op = "ram_write" /\ NatOf(last'.addr) + last'.w <= RamSize) =>
            LET a == NatOf(last'.addr)
                w == last'.w
                v == last'.val
            IN  /\ last'.res = Ok({})
                /\ \A k \in 0..(w - 1) :
                      {b \in 0..7 : (ram'[a + k + 1] \div (2 ^ b)) % 2 = 1}
                         = {i - 8 * k : i \in v \cap ((8 * k)..(8 * k + 7))}
                /\ \A i \in 1..RamSize : (i - 1 < a \/ i - 1 >= a + w) => ram'[i] = ram[i]
                /\ RamRead(ram', w, last'.addr) = Ok(v)
                /\ \A n \in Widths : n <= w => RamRead(ram', n, last'.addr) = Ok(Trunc(v, 8 * n))
       /\ (last'.op = "ram_read" /\ NatOf(last'.addr) + last'.w <= RamSize) =>
            LET a == NatOf(last'.addr)
                w == last'.w
            IN  /\ ram' = ram
                /\ last'.res.ok
                /\ last'.res.val \subseteq 0..(8 * w - 1)
                /\ \A k \in 0..(w - 1) :
                      {b \in 0..7 : (ram[a + k + 1] \div (2 ^ b)) % 2 = 1}
                         = {i - 8 * k : i \in last'.res.val \cap ((8 * k)..(8 * k + 7))}
                /\ (last.op = "ram_write" /\ last.res.ok /\ last.w = w /\ last.addr = last'.addr)
                      => last'.res = Ok(last.val)
      ]_vars

\* an unaligned word written to the RAM has been read back
C9_Witness ==
    /\ last.op = "ram_read" /\ last.w = 4 /\ last.addr = Bits(1)
    /\ last.res = Ok(Trunc(Pattern, 32))
    /\ ram[2] = 17 /\ ram[5] = 68

(***************************************************************************)
(* SpecBus: devices are mapped on a DynBus and accessed through it.        *)
(***************************************************************************)
DevicePool ==
    { [kind |-> "ram", data |-> RamNew],
      [kind |-> "rom", data |-> <<19, 129, 0, 125>>],
      [kind |-> "htif", data |-> <<>>] }

RangePool ==
    { [start |-> Bits(0), end |-> Bits(8)],
      [start |-> Bits(4), end |-> Bits(12)] }

AddrPool == {Bits(0), Bits(3), Bits(4), Bits(9), Bits(12)}

InitBus ==
    /\ NoHart /\ NoIrq
    /\ devices = <<>>
    /\ ram = <<>>
    /\ last = NoOp
    /\ steps = 0

BusMap(dev, range) ==
    /\ Len(devices) < MaxDevices
    /\ devices' = DynBusMap(devices, dev, range)
    /\ last' = [op |-> "map", w |-> 0, addr |-> range.start, val |-> {}, res |-> Ok({})]
    /\ UNCHANGED <<ticks, registers, pc, csr, stop, ram, irq, steps>>

BusReadOp(w, addr) ==
    /\ steps < MaxBusOps
    /\ last' = [op |-> "bus_read", w |-> w, addr |-> addr, val |-> {},
                res |-> DynBusRead(devices, w, addr)]
    /\ steps' = steps + 1
    /\ UNCHANGED <<ticks, registers, pc, csr, stop, devices, ram, irq>>

BusWriteOp(w, addr, v) ==
    /\ steps < MaxBusOps
    /\ devices' = DynBusWrite(devices, w, addr, Trunc(v, 8 * w)).devs
    /\ last' = [op |-> "bus_write", w |-> w, addr |-> addr, val |-> Trunc(v, 8 * w),
                res |-> DynBusWrite(devices, w, addr, Trunc(v, 8 * w)).res]
    /\ steps' = steps + 1
    /\ UNCHANGED <<ticks, registers, pc, csr, stop, ram, irq>>

NextBus ==
    \/ \E dev \in DevicePool, range \in RangePool : BusMap(dev, range)
    \/ \E w \in Widths, addr \in AddrPool : BusReadOp(w, addr)
    \/ \E w \in Widths, addr \in AddrPool : BusWriteOp(w, addr, Pattern)

SpecBus == InitBus /\ [][NextBus]_vars

\* C7: for every width and address a, a bus access whose address lies in a
\* mapped range [s, e) is forwarded to the device of the (first) mapped range
\* containing a, at the device-local offset a - s, and returns that device's
\* result; when no mapped range contains a it fails with Unmapped(a) and no
\* device changes.
C7_BusRouting ==
    [][(last'.op \in {"bus_read", "bus_write"}) =>
          \A a \in {last'.addr}, w \in {last'.w} :
          \A hits \in {{i \in DOMAIN devices :
                          ~ULt(a, devices[i].range.start) /\ ULt(a, devices[i].range.end)}} :
             IF hits = {}
             THEN last'.res = Err("Unmapped", a) /\ devices' = devices
             ELSE \A i \in {x \in hits : \A y \in hits : x <= y} :
                  \A off \in {Bits(NatOf(a) - NatOf(devices[i].range.start))} :
                     IF last'.op = "bus_read"
                     THEN /\ last'.res = DevRead(devices[i].dev, w, off)
                          /\ devices' = devices
                     ELSE \A r \in {DevWrite(devices[i].dev, w, off, last'.val)} :
                             /\ last'.res = r.res
                             /\ devices' = [devices EXCEPT ![i].dev = r.dev]
      ]_vars

\* with a ROM mapped at [0, 8) and a RAM at [4, 12), a half word written
\* through the bus at address 9 has landed at offset 5 of the RAM
C7_Witness ==
    /\ last.op = "bus_write" /\ last.addr = Bits(9) /\ last.w = 2 /\ last.res.ok
    /\ Len(devices) = 2
    /\ devices[1].dev.kind = "rom" /\ devices[1].range.end = Bits(8)
    /\ devices[2].dev.kind = "ram" /\ devices[2].range.start = Bits(4)
    /\ devices[2].dev.data[6] = 17 /\ devices[2].dev.data[7] = 34

\* C8: each address is contained in the range of at most one mapped device
C8_NoOverlap ==
    \A i, j \in DOMAIN devices :
        i # j => ~\E a \in 0..12 : Contains(devices[i].range, Bits(a))
                                    /\ Contains(devices[j].range, Bits(a))

\* the bus access of this step is routed to an HTIF device
RoutedToHtif ==
    /\ last'.op \in {"bus_read", "bus_write"}
    /\ \A i \in {FirstHit(devices, last'.addr)} : i # 0 /\ devices[i].dev.kind = "htif"

\* C26: every write to the HTIF device, at any offset and of any width,
\* returns Halt, and every read of any width returns MemoryFault.
C26_HtifFaults ==
    [][RoutedToHtif
          => /\ ~last'.res.ok
             /\ last'.res.err = IF last'.op = "bus_write" THEN "Halt" ELSE "MemoryFault"
      ]_vars

(***************************************************************************)
(* SpecHart: a hart on a bus with one RAM at [0, MemSize) that holds a     *)
(* program at start_pc; registers are set through set_register and the     *)
(* debugger, the hart is reset and stopped, and tick runs the program.     *)
(***************************************************************************)
MemSize == 12
MaxTicks == 3
MaxHartOps == 2

\* a 32-bit instruction from its two halves, and a compressed one
W(hi, lo) == IRV32(Shl(Bits(hi), 16) \cup Bits(lo))
C(half) == CRV32(Bits(half))

Programs ==
    { <<>>,                                        \* 0x00000000 ...
      <<W(33, 51), W(0, 4151), W(65439, 61551)>>,  \* add x0,x2,x2; lui x0,1; jal x0,-8
      <<W(2049, 8367), W(2081, 8239)>>,            \* amoswap.w x1,x0,(x2); amoswap.w x0,x2,(x2)
      <<W(0, 115), W(0, 115)>>,                    \* ecall; ecall
      <<W(346, 33211)>>,                           \* addw gp,s5,s5 (0x015a81bb)
      <<C(8192)>>,                                 \* 0x2000 (c.fld, not decoded)
      <<W(1, 8323), W(33, 8323)>>,                 \* lw x1,0(x2); lw x1,2(x2)
      <<W(33, 8227), W(33, 8483)>>,                \* sw x2,0(x2); sw x2,2(x2)
      <<W(12320, 115)>>,                           \* mret
      <<W(16, 115), W(16, 147)>>,                  \* ebreak; addi x1,x0,1
      <<C(36866), C(16517)>>,                      \* c.ebreak; c.li x1,1
      <<W(45057, 4211), W(16, 32915)>>,            \* csrrw x0,mcycle,x2; addi x1,x1,1
      <<W(16, 32915), W(16, 32915), W(45057, 4211)>>,  \* addi; addi; csrrw x0,mcycle,x2
      <<W(45088, 4339), W(45056, 8435)>> }         \* csrrw x1,minstret,x0; csrrs x1,mcycle,x0

\* the bytes of a program, little-endian, one instruction after the other
RECURSIVE Flatten(_)
Flatten(prog) ==
    IF prog = <<>> THEN <<>>
    ELSE [k \in 1..Head(prog).size |-> ByteOf(Head(prog).word, k - 1)] \o Flatten(Tail(prog))

\* Ram::write(0, code) on a fresh RAM of MemSize bytes
Image(prog) ==
    [i \in 1..MemSize |-> IF i <= Len(Flatten(prog)) THEN Flatten(prog)[i] ELSE 0]

\* values handed to set_register: 8, "SRST", 2^40 and 0xFFFF_FFFF_FFFF_FFFC
ValuePool == {Bits(8), SRST, {40}, Not({0, 1})}
RegPool == {0, 2, ARG0, EID}

\* register files handed to the debugger's SetRegisters: pc, then x0 .. x31
RegsPool == {[i \in 1..33 |-> IF i = 1 THEN Bits(4) ELSE Bits(5)]}

\* what the console does for an SBI console call
IoPool == {-1, 65}

Hart == [registers |-> registers, pc |-> pc, csr |-> csr, stop |-> stop, bus |-> devices]

SetHart(h) ==
    /\ registers' = h.registers
    /\ pc' = h.pc
    /\ csr' = h.csr
    /\ stop' = h.stop
    /\ devices' = h.bus

\* Hart::new(0, start_pc, bus), after the program has been written to the RAM
InitHart ==
    /\ \E prog \in Programs :
          devices = DynBusMap(<<>>, [kind |-> "ram", data |-> Image(prog)],
                              [start |-> Bits(0), end |-> Bits(MemSize)])
    /\ registers = [r \in 0..31 |-> {}]
    /\ pc = start_pc
    /\ csr = CsrNew({})
    /\ stop = FALSE
    /\ ram = <<>> /\ NoIrq
    /\ last = NoOp
    /\ steps = 0
    /\ ticks = 0

\* the console's answer matters to the legacy console calls only
Tick(io) ==
    /\ ticks < MaxTicks
    /\ io = 65 \/ get_register(Hart, EID) \in {Bits(1), Bits(2)}
    /\ \E t \in {tick(Hart, io)} :
          /\ SetHart(t.h)
          /\ last' = [op |-> "tick", w |-> t.ins.size, addr |-> pc,
                      val |-> t.ins.word, res |-> t.res]
    /\ ticks' = ticks + 1
    /\ UNCHANGED <<ram, irq, steps>>

HartOp(name, h, reg, val) ==
    /\ steps < MaxHartOps
    /\ SetHart(h)
    /\ last' = [op |-> name, w |-> reg, addr |-> {}, val |-> val, res |-> Ok({})]
    /\ steps' = steps + 1
    /\ UNCHANGED <<ram, irq, ticks>>

SetRegister(reg, val) == HartOp("set_register", set_register(Hart, reg, val), reg, val)
Reset == HartOp("reset", reset(Hart), 0, {})
Stop == HartOp("stop", halt(Hart), 0, {})
DbgSetRegisters(regs) == HartOp("SetRegisters", SetRegisters(Hart, regs), 0, regs[2])

NextHart ==
    \/ \E io \in IoPool : Tick(io)
    \/ \E reg \in RegPool, val \in ValuePool : SetRegister(reg, val)
    \/ Reset
    \/ Stop
    \/ \E regs \in RegsPool : DbgSetRegisters(regs)

SpecHart == InitHart /\ [][NextHart]_vars

(***************************************************************************)
(* Claims about the hart.                                                  *)
(***************************************************************************)
\* the step is a tick that fetched the 32-bit instruction hi:lo
Ticked32(hi, lo) ==
    last'.op = "tick" /\ last'.w = 4 /\ last'.val = Shl(Bits(hi), 16) \cup Bits(lo)

\* C1: register x0 reads as zero in every reachable hart state, whatever
\* sequence of tick, set_register, reset and debugger SetRegisters led to it.
C1_X0ReadsZero == get_register(Hart, 0) = {}

\* `add x0,x2,x2` has retired with a non-zero x2
C1_Witness ==
    /\ last.op = "tick" /\ last.val = W(33, 51).word /\ last.res.ok
    /\ registers[2] # {}

\* C2: a tick that fetches an illegal or undecodable instruction at PC = P
\* (in particular the all-zero parcel) takes an illegal-instruction trap:
\* afterwards MEPC = P, MCAUSE = 2, PC = MTVEC.base, and no general register
\* has been written.
C2_IllegalInstructionTraps ==
    [][(/\ last'.op = "tick" /\ last'.w > 0
        /\ last'.val = {} \/ last'.res.err = "IllegalOpcode")
          => /\ CsrGet(csr', MEPC) = pc
             /\ CsrGet(csr', MCAUSE) = Bits(2)
             /\ pc' = CsrGet(csr, MTVEC) \ {0, 1}
             /\ registers' = registers
      ]_vars

\* C3: a load or store at PC = P whose address no device covers, or that the
\* device rejects, enters a trap instead of returning the error from tick:
\* afterwards MEPC = P, MCAUSE is 5 (load) or 7 (store), MTVAL is the
\* faulting address and PC = MTVEC.base.
C3_AccessFaultTraps ==
    [][(last'.op = "tick" /\ last'.w = 4 /\ Field(last'.val, 0, 7) \in {3, 35}) =>
          \A d \in {decode_32(last'.val)} :
          \A addr \in {Add(registers[d.rs1], d.imm)} :
          \A rejected \in {IF d.opcode = 3
                           THEN ~DynBusRead(devices, 4, addr).ok
                           ELSE ~DynBusWrite(devices, 4, addr, {}).res.ok} :
             rejected =>
                /\ last'.res.ok
                /\ CsrGet(csr', MEPC) = pc
                /\ CsrGet(csr', MCAUSE) = (IF d.opcode = 3 THEN Bits(5) ELSE Bits(7))
                /\ CsrGet(csr', MTVAL) = addr
                /\ pc' = CsrGet(csr, MTVEC) \ {0, 1}
      ]_vars

\* C4: MRET (0x30200073) retires successfully and returns from the trap:
\* afterwards PC is the saved MEPC and MSTATUS.MIE (bit 3) is the saved
\* MSTATUS.MPIE (bit 7).
C4_MretReturns ==
    [][Ticked32(12320, 115) =>
          /\ last'.res.ok
          /\ pc' = CsrGet(csr, MEPC)
          /\ (3 \in CsrGet(csr', MSTATUS)) = (7 \in CsrGet(csr, MSTATUS))
      ]_vars

\* the reset reasons sbi_system_reset accepts
ValidReason(v) == v \in {{}, {0}} \/ (v \subseteq 0..31 /\ {29, 30, 31} \subseteq v)

\* C5: EBREAK, C.EBREAK, stop(), the SBI legacy shutdown and SBI system_reset
\* of type 0 set the stop flag; once it is set it stays set, and every tick
\* fails with Halt without fetching and leaves PC, the general registers, the
\* CSRs (MCYCLE and MINSTRET included) and memory unchanged.
C5_StoppedHartHalts ==
    [][/\ stop => /\ stop'
                  /\ last'.op = "tick" =>
                        /\ last'.res = Err("Halt", {}) /\ last'.w = 0
                        /\ pc' = pc /\ registers' = registers
                        /\ csr' = csr /\ devices' = devices
       /\ last'.op = "stop" => stop'
       /\ Ticked32(16, 115) => stop'
       /\ (last'.op = "tick" /\ last'.w = 2 /\ last'.val = Bits(36866)) => stop'
       /\ (Ticked32(0, 115) /\ registers[EID] = Bits(8)) => stop'
       /\ (/\ Ticked32(0, 115) /\ registers[EID] = SRST /\ registers[FID] = {}
           /\ registers[ARG0] = {} /\ ValidReason(registers[ARG1])) => stop'
      ]_vars

\* a tick of a hart stopped by an instruction it executed has failed with Halt
C5_Witness ==
    /\ stop /\ last.op = "tick" /\ last.res = Err("Halt", {})
    /\ CsrGet(csr, MINSTRET) = Bits(1) /\ ticks = 2 /\ steps = 0

AddressesCsr(word, size, c) ==
    /\ size = 4
    /\ Field(word, 0, 7) = 115 /\ Field(word, 12, 3) \in {1, 2, 3, 5, 6, 7}
    /\ Field(word, 20, 12) = c

\* v + n does not wrap around 2^64 (n <= 3)
NoWrap(v, n) == (\E i \in 2..63 : i \notin v) \/ (Limb(v, 0) % 4) + n < 4

MaxIrqOps == 1

\* pending masks over the machine software, machine timer, supervisor
\* external and machine external bits, and bit 12, which is no interrupt
\* cause; enable masks
MaskPool == SUBSET {3, 7, 9, 11, 12}
EnablePool == {{3, 7, 9, 11, 12}, {3, 7}, {7, 9}, {}}

\* what a bus read of a pending word returns
ReadPool == {Ok({}), Ok({0}), Err("Unimplemented", {})}

InitIrq ==
    /\ NoHart
    /\ devices = <<>> /\ ram = <<>>
    /\ irq = <<>>
    /\ last = NoOp
    /\ steps = 0

Arbitrate(mstatus, mip, mie, msip, eip) ==
    /\ steps < MaxIrqOps
    /\ steps' = steps + 1
    /\ irq' = [mstatus |-> mstatus, mip |-> mip, mie |-> mie, msip |-> msip, eip |-> eip,
               res |-> interrupt(mstatus, mip, mie, msip, eip)]
    /\ last' = [op |-> "interrupt", w |-> 0, addr |-> {}, val |-> {}, res |-> Ok({})]
    /\ UNCHANGED <<ticks, registers, pc, csr, stop, devices, ram>>

NextIrq ==
    \E mstatus \in {{}, {3}}, mip \in MaskPool, mie \in EnablePool,
       msip \in ReadPool, eip \in ReadPool :
        Arbitrate(mstatus, mip, mie, msip, eip)

SpecIrq == InitIrq /\ [][NextIrq]_vars

\* the causes in the order MEI > MSI > MTI > SEI > SSI > STI > UEI > USI > UTI
PriorityOrder == <<11, 3, 7, 9, 1, 5, 8, 0, 4>>

\* C10: whenever MSTATUS.MIE is set and the effective pending mask and mie
\* intersect, an arbitration whose bus reads succeed yields the mcause
\* (bit 63 set) of the highest-priority pending-and-enabled cause in the
\* order MEI > MSI > MTI > SEI > SSI > STI > UEI > USI > UTI, whatever other
\* bits are set; with MSTATUS.MIE clear or an empty intersection it yields
\* no interrupt.
C10_ArbitrationPriority ==
    (irq # <<>> /\ irq.msip.ok /\ irq.eip.ok) =>
        \A eff \in {irq.mip \cup (IF irq.msip.val # {} THEN {3} ELSE {})
                            \cup (IF irq.eip.val # {} THEN {11} ELSE {})} :
        \A ip \in {eff \cap irq.mie} :
            IF 3 \in irq.mstatus /\ ip # {}
            THEN \E k \in DOMAIN PriorityOrder :
                    /\ PriorityOrder[k] \in ip
                    /\ \A j \in 1..(k - 1) : PriorityOrder[j] \notin ip
                    /\ irq.res = [kind |-> "Some", val |-> {63} \cup Bits(PriorityOrder[k])]
            ELSE irq.res.kind = "None"

(***************************************************************************)
(* SpecTimer: an RTC mapped on the bus, whose timer is programmed and read *)
(* while time passes, and interrupt arbitration over the hart's CSRs with  *)
(* nothing pending at the CLINT's msip word and at the PLIC.               *)
(***************************************************************************)
MaxTime == 2
MaxTimerOps == 2

\* where bin/linuxdbg.rs maps the RTC: 0x40000 .. 0x40020
RtcRange == [start |-> {18}, end |-> {18, 5}]

TimePool == {{}, Bits(1), {32}, {32, 0}}

InitTimer ==
    /\ NoHart /\ NoIrq
    /\ devices = DynBusMap(<<>>, RtcNew, RtcRange)
    /\ ram = <<>>
    /\ last = NoOp
    /\ steps = 0

\* an access of the RTC through its device interface
RtcWriteOp(w, addr, val) ==
    /\ steps < MaxTimerOps
    /\ \E r \in {RtcWrite(devices[1].dev, w, addr, val)} :
          /\ devices' = [devices EXCEPT ![1].dev = r.dev]
          /\ last' = [op |-> "rtc_write", w |-> w, addr |-> addr, val |-> val, res |-> r.res]
    /\ steps' = steps + 1
    /\ UNCHANGED <<ticks, registers, pc, csr, stop, ram, irq>>

RtcReadOp(w, addr) ==
    /\ steps < MaxTimerOps
    /\ last' = [op |-> "rtc_read", w |-> w, addr |-> addr, val |-> {},
                res |-> RtcRead(devices[1].dev, w, addr)]
    /\ steps' = steps + 1
    /\ UNCHANGED <<ticks, registers, pc, csr, stop, devices, ram, irq>>

\* start.elapsed() grows between two calls of get_time
Elapse ==
    /\ NatOf(devices[1].dev.now) < MaxTime
    /\ devices' = [devices EXCEPT ![1].dev.now = Bits(NatOf(@) + 1)]
    /\ last' = [op |-> "elapse", w |-> 0, addr |-> {}, val |-> {}, res |-> Ok({})]
    /\ UNCHANGED <<ticks, registers, pc, csr, stop, ram, irq, steps>>

\* clint::interrupt with the hart's MSTATUS, MIP and MIE
TimerInterrupt(mstatus, mip, mie) ==
    /\ irq' = [mstatus |-> mstatus, mip |-> mip, mie |-> mie, msip |-> Ok({}), eip |-> Ok({}),
               res |-> interrupt(mstatus, mip, mie, Ok({}), Ok({}))]
    /\ last' = [op |-> "interrupt", w |-> 0, addr |-> {}, val |-> {}, res |-> Ok({})]
    /\ UNCHANGED <<ticks, registers, pc, csr, stop, devices, ram, steps>>

NextTimer ==
    \/ \E w \in Widths, addr \in {Bits(0), Bits(4), Bits(8), Bits(12)}, val \in TimePool :
          RtcWriteOp(w, addr, val)
    \/ \E w \in Widths, addr \in {Bits(0), Bits(4), Bits(8), Bits(12), Bits(16)} :
          RtcReadOp(w, addr)
    \/ Elapse
    \/ \E mstatus \in {{}, {3}}, mip \in {{}, {7}}, mie \in {{}, {7}} :
          TimerInterrupt(mstatus, mip, mie)

SpecTimer == InitTimer /\ [][NextTimer]_vars

\* C11: whenever the RTC's mtime is greater than or equal to mtimecmp, the
\* machine timer interrupt is pending: an arbitration made with MIE.MTIE and
\* MSTATUS.MIE set (and nothing else pending) yields the machine timer
\* interrupt, mcause 0x8000000000000007, for the hart to take.
C11_TimerInterruptFires ==
    [][(/\ last'.op = "interrupt"
        /\ ~ULt(devices[1].dev.now, devices[1].dev.mtimecmp)
        /\ 3 \in irq'.mstatus /\ 7 \in irq'.mie)
          => irq'.res = [kind |-> "Some", val |-> {63, 2, 1, 0}]
      ]_vars

(***************************************************************************)
(* SpecPlic: a PLIC programmed and read through its device interface.      *)
(***************************************************************************)
MaxPlicOps == 4

\* priority of sources 1 and 2, pending word 0, enable word 0 and threshold
\* and claim/complete of context 0, and an offset in no register region
PlicAddrPool == {4, 8, 4096, 8192, 2097152, 2097156, 4224}
PlicValuePool == {{}, {0}, {1}, {1, 2}}

InitPlic ==
    /\ NoHart /\ NoIrq
    /\ devices = <<[range |-> [start |-> {26, 27}, end |-> {26, 27, 25, 22}], dev |-> PlicNew]>>
    /\ ram = <<>>
    /\ last = NoOp
    /\ steps = 0

PlicWriteOp(w, a, val) ==
    /\ steps < MaxPlicOps
    /\ \E r \in {PlicWrite(devices[1].dev, w, a, val)} :
          /\ devices' = [devices EXCEPT ![1].dev = r.dev]
          /\ last' = [op |-> "plic_write", w |-> w, addr |-> Bits(a), val |-> val, res |-> r.res]
    /\ steps' = steps + 1
    /\ UNCHANGED <<ticks, registers, pc, csr, stop, ram, irq>>

PlicReadOp(w, a) ==
    /\ steps < MaxPlicOps
    /\ \E r \in {PlicRead(devices[1].dev, w, a)} :
          /\ devices' = [devices EXCEPT ![1].dev = r.dev]
          /\ last' = [op |-> "plic_read", w |-> w, addr |-> Bits(a), val |-> {}, res |-> r.res]
    /\ steps' = steps + 1
    /\ UNCHANGED <<ticks, registers, pc, csr, stop, ram, irq>>

NextPlic ==
    \/ \E w \in {2, 4, 8}, a \in PlicAddrPool, val \in PlicValuePool : PlicWriteOp(w, a, val)
    \/ \E w \in {2, 4, 8}, a \in PlicAddrPool : PlicReadOp(w, a)

SpecPlic == InitPlic /\ [][NextPlic]_vars

\* what the PLIC holds for a source and for context 0, absent keys read as default
PlicPriority(p, s) == OrDefault(p.sources, s, DefaultSource)[s].priority
PlicPending(p) == OrDefault(p.sources, 0, DefaultSource)[0].interrupts
PlicEnabled(p) == OrDefault(OrDefault(p.contexts, 0, DefaultContext)[0].enabled, 0, {})[0]
PlicThreshold(p) == OrDefault(p.contexts, 0, DefaultContext)[0].threshold

\* the sources of context 0 that are pending, enabled and above threshold
Claimable(p) ==
    {s \in (PlicPending(p) \cap PlicEnabled(p)) \ {0} : ULt(PlicThreshold(p), PlicPriority(p, s))}

\* C12: a claim read returns the id of the highest-priority pending, enabled,
\* above-threshold source (0 if there is none) and clears that source's
\* pending bit in the same step.
C12_ClaimReturnsHighest ==
    [][(last'.op = "plic_read" /\ last'.w = 4 /\ last'.addr = Bits(2097156))
          => \A c \in {Claimable(devices[1].dev)} :
                IF c = {} THEN last'.res = Ok({})
                ELSE \E s \in c :
                        /\ \A t \in c : ~ULt(PlicPriority(devices[1].dev, s),
                                             PlicPriority(devices[1].dev, t))
                        /\ last'.res = Ok(Bits(s))
                        /\ s \notin PlicPending(devices'[1].dev)
      ]_vars

(***************************************************************************)
(* SpecBlk: the block device behind a bus with guest RAM, the driver       *)
(* programming its registers and publishing requests on the avail ring of  *)
(* queue 0.  Guest memory holds one descriptor chain (header, data buffer, *)
(* status byte) at descriptors 0, 1, 2.  irq.processed counts the calls of *)
(* recv_request made so far.                                               *)
(***************************************************************************)
FileLen == 516
MaxBlkOps == 3
MaxAvail == 2
DescArea == 16
DataLen == 4

\* the guest's layout: four descriptors, the avail ring and the used ring of
\* a queue of size 4, the request header, the data buffer and the status byte
AvailArea == DescArea + 64
UsedArea == AvailArea + 12
HeaderAt == UsedArea + 36
DataAt == HeaderAt + 16
StatusAt == DataAt + DataLen
GuestSize == StatusAt + 4

FileImage == [i \in 1..FileLen |-> ((i - 1) % 251) + 1]

\* the stores <<address, width, value>> of a sequence applied to data in turn
RECURSIVE Load(_, _, _)
Load(data, writes, i) ==
    IF i > Len(writes) THEN data
    ELSE Load(RamWrite(data, writes[i][2], Bits(writes[i][1]), writes[i][3]).data, writes, i + 1)

\* a request of type typ (0 IN, 1 OUT) for sector, with avail entries published
GuestImage(typ, sector, avail) ==
    Load([i \in 1..GuestSize |-> 0],
         << <<DescArea, 8, Bits(HeaderAt)>>, <<DescArea + 8, 4, Bits(16)>>,
            <<DescArea + 12, 2, Bits(VirtqDescNEXT)>>, <<DescArea + 14, 2, Bits(1)>>,
            <<DescArea + 16, 8, Bits(DataAt)>>, <<DescArea + 24, 4, Bits(DataLen)>>,
            <<DescArea + 28, 2, Bits(VirtqDescNEXT + (IF typ = 0 THEN VirtqDescWRITE ELSE 0))>>,
            <<DescArea + 30, 2, Bits(2)>>,
            <<DescArea + 32, 8, Bits(StatusAt)>>, <<DescArea + 40, 4, Bits(1)>>,
            <<DescArea + 44, 2, Bits(VirtqDescWRITE)>>,
            <<AvailArea + 2, 2, Bits(avail)>>,
            <<HeaderAt, 4, Bits(typ)>>, <<HeaderAt + 8, 8, Bits(sector)>>,
            <<DataAt, 4, Bits(161) \cup Shl(Bits(162), 8) \cup Shl(Bits(163), 16)
                         \cup Shl(Bits(164), 24)>>,
            <<StatusAt, 1, Bits(255)>> >>,
         1)

\* the register writes by which the driver sets queue 0 up for the areas of
\* the guest image: <<register, value>>
SetupWrites ==
    <<<<RegisterQueueSel, {}>>, <<RegisterQueueSize, Bits(4)>>,
      <<RegisterQueueDescLow, Bits(DescArea)>>, <<RegisterQueueDescHigh, {}>>,
      <<RegisterQueueDriverLow, Bits(AvailArea)>>, <<RegisterQueueDriverHigh, {}>>,
      <<RegisterQueueDeviceLow, Bits(UsedArea)>>, <<RegisterQueueDeviceHigh, {}>>,
      <<RegisterQueueReady, Bits(1)>>>>

\* single accesses of the driver: <<width, register, value>> and <<width, register>>
BlkWritePool ==
    {<<4, RegisterStatus, {}>>, <<4, RegisterStatus, Bits(ACKNOWLEDGE)>>,
     <<4, RegisterStatus, Bits(ACKNOWLEDGE + DRIVER)>>,
     <<4, RegisterStatus, Bits(DEVICE_NEEDS_RESET)>>,
     <<4, RegisterQueueSel, {}>>, <<4, RegisterQueueSel, Bits(MAX_QUEUES)>>,
     <<4, RegisterQueueSize, Bits(4)>>, <<4, RegisterQueueReady, Bits(1)>>,
     <<4, RegisterQueueDescLow, Bits(DescArea)>>, <<4, RegisterQueueDescHigh, Bits(1)>>,
     <<4, RegisterQueueDriverLow, Bits(AvailArea)>>,
     <<4, RegisterQueueNotify, {}>>, <<4, RegisterQueueNotify, Bits(MAX_QUEUES)>>,
     <<4, RegisterDriverFeatures, Bits(1)>>, <<4, RegisterDriverFeaturesSel, Bits(1)>>,
     <<4, RegisterMagicValue, {}>>,
     <<2, RegisterStatus, {}>>}
BlkReadPool ==
    {<<4, RegisterStatus>>, <<4, RegisterQueueReady>>, <<4, RegisterConfig>>,
     <<4, RegisterQueueSel>>, <<8, RegisterConfig>>, <<1, RegisterStatus>>}

\* the builds in which an access can end differently: a notify of a queue
\* of size 0, and a narrow or wide read below the configuration space
WriteBuilds(blk, a, val) ==
    IF a = RegisterQueueNotify /\ QueueAt(val) # 0 /\ blk.queues[QueueAt(val)].size = {}
    THEN BOOLEAN ELSE {TRUE}
ReadBuilds(w, a) == IF w # 4 /\ a < RegisterConfig THEN BOOLEAN ELSE {TRUE}

\* the images the guest memory starts from: <<type, sector, avail.idx>>
GuestImages == {<<0, 0, 1>>, <<0, 1, 1>>, <<1, 1, 1>>, <<0, 1, 0>>}

InitBlk ==
    /\ NoHart
    /\ irq = [processed |-> 0]
    /\ \E g \in GuestImages :
          devices = <<[range |-> [start |-> {}, end |-> Bits(GuestSize)],
                       dev |-> [kind |-> "ram", data |-> GuestImage(g[1], g[2], g[3])]],
                      [range |-> [start |-> {28, 12}, end |-> {28, 13}],
                       dev |-> BlkNew(FileImage)]>>
    /\ ram = <<>>
    /\ last = NoOp
    /\ steps = 0

\* the handler did not return: the emulator's thread is gone
Crashed == last.res.err \in {"panic", "hang"}

BlkWriteOp(w, a, val, release) ==
    /\ ~Crashed
    /\ steps < MaxBlkOps
    /\ \E r \in {BlkWrite(<<devices[1]>>, devices[2].dev, w, a, val, release)} :
          /\ devices' = <<r.devs[1], [devices[2] EXCEPT !.dev = r.dev]>>
          /\ irq' = [processed |-> irq.processed + r.n]
          /\ last' = [op |-> "blk_write", w |-> w, addr |-> Bits(a), val |-> val, res |-> r.res]
    /\ steps' = steps + 1
    /\ UNCHANGED <<ticks, registers, pc, csr, stop, ram>>

BlkReadOp(w, a, release) ==
    /\ ~Crashed
    /\ steps < MaxBlkOps
    /\ last' = [op |-> "blk_read", w |-> w, addr |-> Bits(a), val |-> {},
                res |-> BlkRead(devices[2].dev, w, a, release)]
    /\ steps' = steps + 1
    /\ UNCHANGED <<ticks, registers, pc, csr, stop, devices, ram, irq>>

\* the driver's queue set-up: the writes of SetupWrites one after the other,
\* up to the first that does not return Ok
RECURSIVE WriteAll(_, _, _)
WriteAll(r, writes, i) ==
    IF i > Len(writes) \/ ~r.res.ok THEN r
    ELSE WriteAll(BlkWriteWord(r.devs, r.dev, writes[i][1], writes[i][2], TRUE), writes, i + 1)

DriverSetup ==
    /\ ~Crashed
    /\ devices[2].dev.queues[1].size = {}
    /\ \E r \in {WriteAll([devs |-> <<devices[1]>>, dev |-> devices[2].dev, res |-> Ok({}),
                           n |-> 0], SetupWrites, 1)} :
          /\ devices' = <<r.devs[1], [devices[2] EXCEPT !.dev = r.dev]>>
          /\ last' = [op |-> "setup", w |-> 4, addr |-> Bits(RegisterQueueReady), val |-> {},
                      res |-> r.res]
    /\ UNCHANGED <<ticks, registers, pc, csr, stop, ram, irq, steps>>

\* guest memory as the driver and the device see it
GuestAt(devs, n, w) == RamRead(devs[1].dev.data, w, Bits(n)).val

\* the driver publishes the chain at descriptor 0 once more: avail.ring[idx
\* mod 4] holds 0 already, and avail.idx grows by one
DriverPublish ==
    /\ ~Crashed
    /\ NatOf(GuestAt(devices, AvailArea + 2, 2)) < MaxAvail
    /\ devices' = [devices EXCEPT ![1].dev.data =
                      RamWrite(@, 2, Bits(AvailArea + 2),
                               Bits(NatOf(GuestAt(devices, AvailArea + 2, 2)) + 1)).data]
    /\ last' = [op |-> "publish", w |-> 2, addr |-> Bits(AvailArea + 2), val |-> {},
                res |-> Ok({})]
    /\ UNCHANGED <<ticks, registers, pc, csr, stop, ram, irq, steps>>

NextBlk ==
    \/ \E p \in BlkWritePool : \E release \in WriteBuilds(devices[2].dev, p[2], p[3]) :
          BlkWriteOp(p[1], p[2], p[3], release)
    \/ \E p \in BlkReadPool : \E release \in ReadBuilds(p[1], p[2]) :
          BlkReadOp(p[1], p[2], release)
    \/ DriverSetup
    \/ DriverPublish

SpecBlk == InitBlk /\ [][NextBlk]_vars

\* a QueueNotify write for queue 0 that returned, the queue's areas and size
\* being the ones the guest image was laid out for
NotifyStep ==
    /\ last'.op = "blk_write" /\ last'.w = 4 /\ last'.addr = Bits(RegisterQueueNotify)
    /\ last'.val = {} /\ last'.res.ok
    /\ devices[2].dev.queues[1] = [ready |-> devices[2].dev.queues[1].ready, size |-> Bits(4),
                                   desc |-> Bits(DescArea), driver |-> Bits(AvailArea),
                                   device |-> Bits(UsedArea)]

\* the len bytes of the backing file from byte offset sector * 512 on
FileBytes(file, sector, len) == [i \in 1..len |-> file[sector * SectorSize + i]]
GuestBytes(devs, n, len) == [i \in 1..len |-> devs[1].dev.data[n + i]]

\* C13: when a QueueNotify processes an IN request chain, the guest data
\* buffer holds the len bytes of the file from offset sector * 512, the status
\* byte is 0, one (head, length) element was added to the used ring and
\* used.idx grew by one.
C13_InRequestCompletes ==
    [][(/\ NotifyStep
        /\ GuestAt(devices, HeaderAt, 4) = {}
        /\ GuestAt(devices, AvailArea + 2, 2) = Bits(1))
          => /\ GuestBytes(devices', DataAt, DataLen)
                  = FileBytes(devices[2].dev.file,
                              NatOf(GuestAt(devices, HeaderAt + 8, 8)), DataLen)
             /\ GuestAt(devices', StatusAt, 1) = {}
             /\ GuestAt(devices', UsedArea + 2, 2)
                  = Bits(NatOf(GuestAt(devices, UsedArea + 2, 2)) + 1)
             /\ GuestAt(devices', UsedArea + 4, 8) = Shl(Bits(DataLen), 32)
      ]_vars

\* C14: across QueueNotify writes every avail-ring entry is processed exactly
\* once: after a notify that returned, as many requests have been processed
\* as the driver has published.
C14_EachEntryOnce ==
    [][NotifyStep => irq'.processed = NatOf(GuestAt(devices, AvailArea + 2, 2))]_vars

\* C15: a write of 0 to Status resets the device (Status reads 0, every
\* queue's ready flag, size and addresses and the driver features are
\* cleared); a non-zero write ORs the ACKNOWLEDGE, DRIVER, FEATURES_OK and
\* DRIVER_OK bits written into Status and leaves the bits set before set.
C15_StatusZeroResets ==
    [][(last'.op = "blk_write" /\ last'.w = 4 /\ last'.addr = Bits(RegisterStatus))
          => IF last'.val = {}
             THEN /\ BlkRead(devices'[2].dev, 4, RegisterStatus, TRUE) = Ok({})
                  /\ \A q \in 1..MAX_QUEUES : devices'[2].dev.queues[q] = NewQueue
                  /\ devices'[2].dev.state.DriverFeatures = {}
             ELSE BlkRead(devices'[2].dev, 4, RegisterStatus, TRUE)
                     = Ok(devices[2].dev.state.status
                            \cup (last'.val
                                  \cap Bits(ACKNOWLEDGE + DRIVER + FEATURES_OK + DRIVER_OK)))
      ]_vars

\* C16: an OUT request writes the len bytes of the guest buffer to the backing
\* file at offset sector * 512.
C16_OutRequestWritesFile ==
    [][(/\ NotifyStep
        /\ GuestAt(devices, HeaderAt, 4) = {0}
        /\ GuestAt(devices, AvailArea + 2, 2) = Bits(1))
          => FileBytes(devices'[2].dev.file, NatOf(GuestAt(devices, HeaderAt + 8, 8)), DataLen)
                = GuestBytes(devices, DataAt, DataLen)
      ]_vars

(***************************************************************************)
(* SpecExec: a hart whose registers x2 and x10 were set before it runs one *)
(* of a set of short programs from address 0.                              *)
(***************************************************************************)
MaxExecTicks == 2

ExecPrograms ==
    { <<W(161, 1123)>>,                  \* beq x2,x10,+8
      <<W(65185, 7907)>>,                \* bne x2,x10,-4
      <<W(161, 17507)>>,                 \* blt x2,x10,+8
      <<W(32929, 20579)>>,               \* bge x2,x10,-4096
      <<C(1), W(161, 25443)>>,           \* c.nop; bltu x2,x10,+6
      <<W(32417, 32739)>>,               \* bgeu x2,x10,+4094
      <<C(49425)>>,                      \* c.beqz x10,+4
      <<C(1), C(64893)>>,                \* c.nop; c.bnez x10,-2
      <<C(53505)>>,                      \* c.beqz x10,-256
      <<W(65, 231)>>,                    \* jalr x1,4(x2)
      <<W(65489, 359)>>,                 \* jalr x2,-3(x2)
      <<C(1), W(21, 103)>>,              \* c.nop; jalr x0,1(x10)
      <<C(33026)>>,                      \* c.jr x2
      <<C(38146)>>,                      \* c.jalr x10
      <<W(2209, 8367), W(0, 9), W(65535, 65520)>>,   \* amoswap.w x1,x10,(x2); data
      <<W(2209, 12463), W(0, 9), W(65535, 65520)>>,   \* amoswap.d x1,x10,(x2); data
      <<W(161, 8367), W(0, 9), W(65535, 65520)>>,   \* amoadd.w x1,x10,(x2); data
      <<W(161, 12463), W(0, 9), W(65535, 65520)>>,   \* amoadd.d x1,x10,(x2); data
      <<W(24737, 8367), W(0, 9), W(65535, 65520)>>,   \* amoand.w x1,x10,(x2); data
      <<W(24737, 12463), W(0, 9), W(65535, 65520)>>,   \* amoand.d x1,x10,(x2); data
      <<W(16545, 8367), W(0, 9), W(65535, 65520)>>,   \* amoor.w x1,x10,(x2); data
      <<W(16545, 12463), W(0, 9), W(65535, 65520)>>,   \* amoor.d x1,x10,(x2); data
      <<W(8353, 8367), W(0, 9), W(65535, 65520)>>,   \* amoxor.w x1,x10,(x2); data
      <<W(8353, 12463), W(0, 9), W(65535, 65520)>>,   \* amoxor.d x1,x10,(x2); data
      <<W(41121, 8367), W(0, 9), W(65535, 65520)>>,   \* amomax.w x1,x10,(x2); data
      <<W(41121, 12463), W(0, 9), W(65535, 65520)>>,   \* amomax.d x1,x10,(x2); data
      <<W(32929, 8367), W(0, 9), W(65535, 65520)>>,   \* amomin.w x1,x10,(x2); data
      <<W(32929, 12463), W(0, 9), W(65535, 65520)>>,   \* amomin.d x1,x10,(x2); data
      <<W(57505, 8367), W(0, 9), W(65535, 65520)>>,   \* amomaxu.w x1,x10,(x2); data
      <<W(57505, 12463), W(0, 9), W(65535, 65520)>>,   \* amomaxu.d x1,x10,(x2); data
      <<W(49313, 8367), W(0, 9), W(65535, 65520)>>,   \* amominu.w x1,x10,(x2); data
      <<W(49313, 12463), W(0, 9), W(65535, 65520)>>,   \* amominu.d x1,x10,(x2); data
      <<W(161, 9519), W(0, 9), W(65535, 65520)>>,   \* amoadd.w x10,x10,(x2); data
      <<W(2209, 12335), W(0, 9), W(65535, 65520)>>,   \* amoswap.d x0,x10,(x2); data
      <<W(16, 2707), W(346, 33211)>>,   \* addi s5,x0,1; addw gp,s5,s5
      <<W(37, 443)>>,   \* addw x3,x10,x2
      <<W(16421, 443)>>,   \* subw x3,x10,x2
      <<W(37, 4539)>>,   \* sllw x3,x10,x2
      <<W(37, 20923)>>,   \* srlw x3,x10,x2
      <<W(16421, 20923)>>,   \* sraw x3,x10,x2
      <<W(65493, 411)>>,   \* addiw x3,x10,-3
      <<W(469, 4507)>>,   \* slliw x3,x10,29
      <<W(37, 20891)>>,   \* srliw x3,x10,2
      <<W(16421, 20891)>>,   \* sraiw x3,x10,2
      <<W(12373, 4211), W(12368, 8563)>>,   \* csrrw x0,mtvec,x10; csrrs x2,mtvec,x0
      <<W(13317, 4211), W(13312, 12531)>>,   \* csrrw x0,mscratch,x10; csrrc x1,mscratch,x0
      <<W(12369, 4211), W(12368, 24819)>>,   \* csrrw x0,mtvec,x2; csrrsi x1,mtvec,0
      <<W(13313, 4211), W(13312, 28915)>>,   \* csrrw x0,mscratch,x2; csrrci x1,mscratch,0
      <<W(61744, 8435)>>,   \* csrrs x1,mimpid,x0
      <<W(45056, 12403), W(45056, 8435)>>,   \* csrrc x0,mcycle,x0; csrrs x1,mcycle,x0
      <<W(12373, 8435), W(12369, 12787)>>,   \* csrrs x1,mtvec,x10; csrrc x3,mtvec,x2
      <<W(160, 111), C(1), C(1), C(1), C(16517)>>,   \* jal x0,+10; c.nop; c.nop; c.nop; c.li x1,1
      <<W(13317, 4211), W(13313, 4467)>>,   \* csrrw x0,mscratch,x10; csrrw x2,mscratch,x2
      <<W(13317, 4211), W(13313, 8563)>>,   \* csrrw x0,mscratch,x10; csrrs x2,mscratch,x2
      <<W(13317, 4211), W(13313, 12659)>> }   \* csrrw x0,mscratch,x10; csrrc x2,mscratch,x2

\* values of x2 and x10: 8, 4, 0, -4, 2^31, 2^40 + 4
ExecValues == {Bits(8), Bits(4), {}, Not({0, 1}), {31}, {40, 2}}

InitExec ==
    /\ \E prog \in ExecPrograms :
          devices = DynBusMap(<<>>, [kind |-> "ram", data |-> Image(prog)],
                              [start |-> Bits(0), end |-> Bits(MemSize)])
    /\ \E x2 \in ExecValues, x10 \in ExecValues :
          registers = [r \in 0..31 |-> IF r = 2 THEN x2 ELSE IF r = ARG0 THEN x10 ELSE {}]
    /\ pc = start_pc
    /\ csr = CsrNew({})
    /\ stop = FALSE
    /\ ram = <<>> /\ NoIrq
    /\ last = NoOp
    /\ steps = 0
    /\ ticks = 0

ExecTick == ticks < MaxExecTicks /\ Tick(65)

NextExec == ExecTick

SpecExec == InitExec /\ [][NextExec]_vars

\* a tick that executed the instruction in last'.val without a fault
Executes == last'.op = "tick" /\ last'.res.ok

\* the conditional branches as the ISA encodes them: opcode 1100011 with a
\* B-type offset, and C.BEQZ / C.BNEZ (quadrant 01, funct3 110 / 111)
IsBranch32(i) == last'.w = 4 /\ Field(i, 0, 7) = 99 /\ Field(i, 12, 3) \notin {2, 3}
IsBranch16(i) == last'.w = 2 /\ Field(i, 0, 2) = 1 /\ Field(i, 13, 3) \in {6, 7}
Offset32(i) ==
    Sext(Move(i, 8, 4, 1) \cup Move(i, 25, 6, 5) \cup Move(i, 7, 1, 11) \cup Move(i, 31, 1, 12), 13)
Offset16(i) ==
    Sext(Move(i, 3, 2, 1) \cup Move(i, 10, 2, 3) \cup Move(i, 2, 1, 5) \cup Move(i, 5, 2, 6)
           \cup Move(i, 12, 1, 8), 9)
Taken32(i, a, b) ==
    CASE Field(i, 12, 3) = 0 -> a = b
      [] Field(i, 12, 3) = 1 -> a # b
      [] Field(i, 12, 3) = 4 -> SLt(a, b)
      [] Field(i, 12, 3) = 5 -> ~SLt(a, b)
      [] Field(i, 12, 3) = 6 -> ULt(a, b)
      [] OTHER -> ~ULt(a, b)
Taken16(i, a) == IF Field(i, 13, 3) = 6 THEN a = {} ELSE a # {}

\* C17: a conditional branch (BEQ, BNE, BLT, BGE, BLTU, BGEU, C.BEQZ, C.BNEZ)
\* at PC = P with offset d leaves PC = P + d mod 2^64 when its condition
\* holds and PC = P + 4 (P + 2 for the compressed forms) when it does not.
C17_BranchTarget ==
    [][\A i \in {last'.val} :
          /\ (Executes /\ IsBranch32(i))
                => pc' = IF Taken32(i, registers[Field(i, 15, 5)], registers[Field(i, 20, 5)])
                         THEN Add(pc, Offset32(i)) ELSE Add(pc, Bits(4))
          /\ (Executes /\ IsBranch16(i))
                => pc' = IF Taken16(i, registers[Field(i, 7, 3) + 8])
                         THEN Add(pc, Offset16(i)) ELSE Add(pc, Bits(2))
      ]_vars

\* a taken BNE at PC = 0 with offset -4 has wrapped to 2^64 - 4
C17_Witness ==
    /\ last.op = "tick" /\ last.res.ok /\ last.val = W(65185, 7907).word /\ last.addr = {}
    /\ pc = Not({0, 1})

\* JALR as the ISA encodes it (opcode 1100111, funct3 000, I-type immediate),
\* and C.JR / C.JALR (quadrant 10, funct4 1000 / 1001, rs1 # 0, rs2 = 0), which
\* are jalr x0, 0(rs1) and jalr x1, 0(rs1)
IsJalr32(i) == last'.w = 4 /\ Field(i, 0, 7) = 103 /\ Field(i, 12, 3) = 0
IsJalr16(i) ==
    /\ last'.w = 2 /\ Field(i, 0, 2) = 2 /\ Field(i, 12, 4) \in {8, 9}
    /\ Field(i, 7, 5) # 0 /\ Field(i, 2, 5) = 0
Linked(regs, rd, ret) == [regs EXCEPT ![rd] = IF rd = 0 THEN {} ELSE ret]

\* C18: JALR rd, imm(rs1) fetched at PC = P writes P + parcel width to rd and
\* sets PC to (old rs1 + sign-extended imm) mod 2^64 with only bit 0 cleared,
\* for every 64-bit value of rs1 and also when rd and rs1 are the same register.
C18_JalrTarget ==
    [][\A i \in {last'.val} :
          /\ (Executes /\ IsJalr32(i))
                => /\ pc' = Add(registers[Field(i, 15, 5)], Sext(Move(i, 20, 12, 0), 12)) \ {0}
                   /\ registers' = Linked(registers, Field(i, 7, 5), Add(pc, Bits(4)))
          /\ (Executes /\ IsJalr16(i))
                => /\ pc' = registers[Field(i, 7, 5)] \ {0}
                   /\ registers' = Linked(registers, Field(i, 12, 4) - 8, Add(pc, Bits(2)))
      ]_vars

\* the AMOs as the ISA encodes them: opcode 0101111, funct3 010 (.W) or 011
\* (.D), funct5 naming the operation
AmoOps == {1, 0, 12, 8, 4, 20, 16, 28, 24}
IsAmo(i) ==
    /\ last'.w = 4 /\ Field(i, 0, 7) = 47 /\ Field(i, 12, 3) \in {2, 3}
    /\ Field(i, 27, 5) \in AmoOps

\* what an AMO of bits bits stores for the old memory value and rs2's value
AmoResult(funct5, old, src, bits) ==
    CASE funct5 = 1 -> src
      [] funct5 = 0 -> Trunc(Add(old, src), bits)
      [] funct5 = 12 -> old \cap src
      [] funct5 = 8 -> old \cup src
      [] funct5 = 4 -> (old \ src) \cup (src \ old)
      [] funct5 = 20 -> IF SLt(Sext(old, bits), Sext(src, bits)) THEN src ELSE old
      [] funct5 = 16 -> IF SLt(Sext(old, bits), Sext(src, bits)) THEN old ELSE src
      [] funct5 = 28 -> IF ULt(old, src) THEN src ELSE old
      [] OTHER -> IF ULt(old, src) THEN old ELSE src

AmoEffect(i, w, addr, old) ==
    /\ registers' = Linked(registers, Field(i, 7, 5), IF w = 4 THEN Sext(old, 32) ELSE old)
    /\ DynBusRead(devices', w, addr)
          = Ok(AmoResult(Field(i, 27, 5), old, Trunc(registers[Field(i, 20, 5)], 8 * w), 8 * w))

\* C19: after an AMO (AMOSWAP, AMOADD, AMOAND, AMOOR, AMOXOR, AMOMAX, AMOMIN,
\* AMOMAXU, AMOMINU, .W or .D) has retired, rd holds the old memory value at
\* the address in rs1 (sign-extended for .W), memory holds op(old value, rs2
\* value), and no general register other than rd has changed.
C19_AmoEffect ==
    [][\A i \in {last'.val} :
          (Executes /\ IsAmo(i))
             => \A w \in {IF Field(i, 12, 3) = 2 THEN 4 ELSE 8} :
                   AmoEffect(i, w, registers[Field(i, 15, 5)],
                             DynBusRead(devices, w, registers[Field(i, 15, 5)]).val)
      ]_vars

\* the RV64 word instructions as the ISA encodes them: OP-32 (0111011) with
\* funct7/funct3 naming ADDW, SUBW, SLLW, SRLW, SRAW and OP-IMM-32 (0011011)
\* naming ADDIW, SLLIW, SRLIW, SRAIW
IsOp32(i) ==
    /\ last'.w = 4 /\ Field(i, 0, 7) = 59
    /\ <<Field(i, 25, 7), Field(i, 12, 3)>> \in {<<0, 0>>, <<32, 0>>, <<0, 1>>, <<0, 5>>, <<32, 5>>}
IsOpImm32(i) ==
    /\ last'.w = 4 /\ Field(i, 0, 7) = 27
    /\ \/ Field(i, 12, 3) = 0
       \/ <<Field(i, 25, 7), Field(i, 12, 3)>> \in {<<0, 1>>, <<0, 5>>, <<32, 5>>}

\* the 32-bit result of a word operation on a and b (b's low five bits are the
\* shift amount), before sign extension
WordResult(funct7, funct3, a, b) ==
    CASE funct3 = 0 /\ funct7 = 32 -> Trunc(Sub(a, b), 32)
      [] funct3 = 0 -> Trunc(Add(a, b), 32)
      [] funct3 = 1 -> Trunc(Shl(Trunc(a, 32), NatOf(Trunc(b, 5))), 32)
      [] funct7 = 32 -> Trunc(Shr(Sext(Trunc(a, 32), 32), NatOf(Trunc(b, 5))), 32)
      [] OTHER -> Shr(Trunc(a, 32), NatOf(Trunc(b, 5)))

WordOperand(i) ==
    CASE Field(i, 0, 7) = 59 -> registers[Field(i, 20, 5)]
      [] Field(i, 12, 3) = 0 -> Sext(Shr(i, 20), 12)
      [] OTHER -> Move(i, 20, 5, 0)

\* C20: each of ADDW, SUBW, SLLW, SRLW, SRAW, ADDIW, SLLIW, SRLIW and SRAIW in
\* its standard 32-bit encoding decodes and executes by writing to rd its
\* 32-bit result sign-extended to 64 bits.
C20_WordOpsExecute ==
    [][\A i \in {last'.val} :
          (last'.op = "tick" /\ (IsOp32(i) \/ IsOpImm32(i)))
             => /\ last'.res.ok
                /\ registers'
                      = Linked(registers, Field(i, 7, 5),
                               Sext(WordResult(IF Field(i, 0, 7) = 27 /\ Field(i, 12, 3) = 0
                                                  THEN 0 ELSE Field(i, 25, 7),
                                               Field(i, 12, 3),
                                               registers[Field(i, 15, 5)], WordOperand(i)), 32))
      ]_vars

\* the Zicsr instructions as the ISA encodes them: opcode 1110011, funct3 010
\* CSRRS, 011 CSRRC, 110 CSRRSI, 111 CSRRCI, 001 CSRRW; the CSR number is the
\* 12-bit immediate, and rs1 (bits 19:15) also holds the 5-bit immediate
IsZicsr(i, w, funct3s) == w = 4 /\ Field(i, 0, 7) = 115 /\ Field(i, 12, 3) \in funct3s
CsrOf(i) == Field(i, 20, 12)

\* the value a CSR holds one tick after it held old, when no instruction
\* wrote it: the tick adds 3 to MCYCLE and 1 to MINSTRET
AfterTick(c, old) ==
    CASE c = MCYCLE -> Add(old, Bits(3))
      [] c = MINSTRET -> Add(old, Bits(1))
      [] OTHER -> old

\* C21: CSRRS and CSRRC with rs1 = x0 (and CSRRSI / CSRRCI with a zero
\* immediate) never modify the addressed CSR while still returning its value
\* in rd; hence CSRRS rd, csr, x0 right after CSRRW x0, csr, rs leaves rd equal
\* to the value of rs and the CSR unchanged by the second instruction.
C21_CsrReadOnly ==
    [][\A i \in {last'.val} :
          (Executes /\ IsZicsr(i, last'.w, {2, 3, 6, 7}) /\ Field(i, 15, 5) = 0)
             => /\ CsrGet(csr', CsrOf(i)) = AfterTick(CsrOf(i), CsrGet(csr, CsrOf(i)))
                /\ registers' = Linked(registers, Field(i, 7, 5), CsrGet(csr, CsrOf(i)))
                /\ (/\ last.op = "tick" /\ last.res.ok /\ IsZicsr(last.val, last.w, {1})
                    /\ Field(last.val, 7, 5) = 0 /\ CsrOf(last.val) = CsrOf(i)
                    /\ CsrOf(i) \notin {MCYCLE, MINSTRET})
                      => registers' = Linked(registers, Field(i, 7, 5),
                                             registers[Field(last.val, 15, 5)])
      ]_vars

\* CSRRS x2, mtvec, x0 has retired after CSRRW x0, mtvec, x10 wrote 0x8000_0000
C21_Witness ==
    /\ last.op = "tick" /\ last.res.ok /\ ticks = 2
    /\ IsZicsr(last.val, last.w, {2}) /\ Field(last.val, 15, 5) = 0
    /\ CsrOf(last.val) = MTVEC /\ Field(last.val, 7, 5) = 2
    /\ registers[2] = {31} /\ CsrGet(csr, MTVEC) = {31}

(***************************************************************************)
(* The CSR file on its own: Csr::new, then Csr::read and Csr::write.       *)
(***************************************************************************)
MaxCsrOps == 2      \* reads and writes performed on the CSR file

HartIds == {{}, Bits(1), Bits(3)}
CsrPool == {MTVEC, MISA, MHARTID, MCYCLE, MINSTRET, 3072, 1984}
\* values written: bases with and without bits 2 and 3, each mode 0 .. 3
CsrValuePool ==
    {{}, {0}, {1}, {0, 1}, {31}, {31, 1}, {31, 3, 2, 1, 0}, {2}, {3, 0}, 0..63, {63, 62, 4, 1}}

\* `last` of the initial state records the construction and the id it was given
InitCsr ==
    /\ \E id \in HartIds :
          /\ csr = CsrNew(id)
          /\ last = [op |-> "new", w |-> 0, addr |-> {}, val |-> id, res |-> Ok({})]
    /\ registers = [r \in 0..31 |-> {}] /\ pc = {} /\ stop = FALSE
    /\ devices = <<>> /\ ram = <<>> /\ NoIrq
    /\ steps = 0
    /\ ticks = 0

CsrWriteOp(i, v) ==
    /\ steps < MaxCsrOps
    /\ csr' = CsrWrite(csr, i, v)
    /\ last' = [op |-> "write", w |-> 8, addr |-> i, val |-> v, res |-> Ok({})]
    /\ steps' = steps + 1
    /\ UNCHANGED <<registers, pc, stop, devices, ram, irq, ticks>>

CsrReadOp(i) ==
    /\ steps < MaxCsrOps
    /\ last' = [op |-> "read", w |-> 8, addr |-> i, val |-> {}, res |-> Ok(CsrRead(csr, i))]
    /\ steps' = steps + 1
    /\ UNCHANGED <<registers, pc, csr, stop, devices, ram, irq, ticks>>

NextCsr ==
    \/ \E i \in CsrPool, v \in CsrValuePool : CsrWriteOp(i, v)
    \/ \E i \in CsrPool : CsrReadOp(i)

SpecCsr == InitCsr /\ [][NextCsr]_vars

\* C22: for every 64-bit value written to MTVEC, a subsequent read returns a
\* legal value: the base keeps every written bit from bit 2 upwards and the
\* mode field reads 0 or 1, written modes 2 and 3 both reading back as 0.
C22_MtvecLegal ==
    [][(/\ last.op = "write" /\ last.addr = MTVEC
        /\ last'.op = "read" /\ last'.addr = MTVEC)
          => last'.res.val
                = (last.val \ {0, 1}) \cup (IF Trunc(last.val, 2) = {0} THEN {0} ELSE {})
      ]_vars

\* C23: immediately after constructing a hart with id h, MISA reads a value
\* encoding RV64 with the I extension (MXL = 2 in bits 63:62, bit 8 set),
\* MHARTID reads h, and MCYCLE and MINSTRET read 0.
C23_ConstructionValues ==
    last.op = "new"
       => /\ \A misa \in {CsrRead(csr, MISA)} : 63 \in misa /\ 62 \notin misa /\ 8 \in misa
          /\ CsrRead(csr, MHARTID) = last.val
          /\ CsrRead(csr, MCYCLE) = {}
          /\ CsrRead(csr, MINSTRET) = {}

(***************************************************************************)
(* ECALL and the SBI (see.rs): programs of ECALLs run with a7 (EID),       *)
(* a6 (FID), a0 and a1 drawn from pools.                                   *)
(***************************************************************************)
SbiPrograms ==
    { <<W(0, 115), W(0, 115), W(0, 115)>>,        \* ecall; ecall; ecall
      <<W(13333, 36979), W(0, 115)>>,             \* csrrw x0,mepc,x11; ecall
      <<W(13346, 53363), W(0, 115)>>,             \* csrrwi x0,mcause,5; ecall
      <<W(12293, 36979), W(0, 115)>> }            \* csrrw x0,mstatus,x11; ecall

\* 0, 1, 2, 3, 8, 15, 16, 17, SRST, SRST + 2^32
EidPool == {{}, Bits(1), Bits(2), Bits(3), Bits(8), Bits(15), Bits(16), Bits(17),
            SRST, SRST \cup {32}}
FidPool == {{}, Bits(1), Bits(6), Bits(7)}
Arg0Pool == {{}, Bits(1), Bits(2), Bits(3), Bits(65), Bits(256)}
\* 0, 1, 2, 0xE000_0000
Arg1Pool == {{}, Bits(1), Bits(2), {29, 30, 31}}

InitSbi ==
    /\ \E prog \in SbiPrograms :
          devices = DynBusMap(<<>>, [kind |-> "ram", data |-> Image(prog)],
                              [start |-> Bits(0), end |-> Bits(MemSize)])
    /\ \E a7 \in EidPool, a6 \in FidPool, a0 \in Arg0Pool, a1 \in Arg1Pool :
          registers = [r \in 0..31 |->
                          CASE r = EID -> a7
                            [] r = FID -> a6
                            [] r = ARG0 -> a0
                            [] r = ARG1 -> a1
                            [] r = 5 -> Bits(7)
                            [] OTHER -> {}]
    /\ pc = start_pc
    /\ csr = CsrNew({})
    /\ stop = FALSE
    /\ ram = <<>> /\ NoIrq
    /\ last = NoOp
    /\ steps = 0
    /\ ticks = 0

NextSbi == \E io \in IoPool : Tick(io)

SpecSbi == InitSbi /\ [][NextSbi]_vars

\* the step is a tick that fetched ECALL (0x00000073)
TickedEcall == last'.op = "tick" /\ last'.w = 4 /\ last'.val = Bits(115)

\* the SBI functions the platform must provide: legacy console_putchar,
\* console_getchar and shutdown, the base extension 0x10 functions 0 .. 6,
\* and system_reset
RequiredSbi(eid, fid) ==
    \/ eid \in {Bits(1), Bits(2), Bits(8)}
    \/ eid = Bits(16) /\ fid \in {Bits(n) : n \in 0..6}
    \/ eid = SRST /\ fid = {}

\* C24: for every (EID, FID) pair that is not one of the required SBI
\* functions, an ECALL sets a0 to -2 (NotSupported), leaves a1, every other
\* general register and the stop flag unchanged, and the tick still succeeds
\* with PC advanced past the ECALL.
C24_NotSupported ==
    [][(TickedEcall /\ ~RequiredSbi(registers[EID], registers[FID]))
          => /\ registers' = [registers EXCEPT ![ARG0] = Not({0})]
             /\ stop' = stop
             /\ last'.res.ok
             /\ pc' = Add(pc, Bits(4))
      ]_vars

\* an ECALL with EID 0x11 (no such extension) has retired at address 4
C24_Witness ==
    /\ last.op = "tick" /\ last.val = Bits(115) /\ last.res.ok /\ last.addr = Bits(4)
    /\ registers[EID] = Bits(17) /\ registers[ARG0] = Not({0})
    /\ registers[ARG1] = Bits(2) /\ pc = Bits(8)

\* C25: after an SBI system_reset with type 1 (cold) or 2 (warm) and a valid
\* reason, PC == start_pc, all general registers are re-initialised, MSTATUS,
\* MEPC, MCAUSE and MTVAL are re-initialised to their construction values, and
\* every byte of memory is unchanged.
C25_SystemReset ==
    [][(/\ TickedEcall /\ registers[EID] = SRST /\ registers[FID] = {}
        /\ registers[ARG0] \in {Bits(1), Bits(2)} /\ ValidReason(registers[ARG1]))
          => /\ pc' = start_pc
             /\ registers' = [r \in 0..31 |-> {}]
             /\ \A c \in {MSTATUS, MEPC, MCAUSE, MTVAL} :
                   CsrGet(csr', c) = CsrGet(CsrNew(CsrGet(csr, MHARTID)), c)
             /\ devices' = devices
      ]_vars

(***************************************************************************)
(* The debug run loop (gdb/emulator.rs): the hart thread runs              *)
(* Emulator::run_hart and the debug thread sends EmulationCommands on the  *)
(* channel; Debugger::run reports a stop whenever the stub is Running.     *)
(* `irq` holds the state of the two threads:                               *)
(*   mode, breakpoints   the locals of run_hart                            *)
(*   channel             the commands sent and not yet received            *)
(*   running             run_hart has not left its loop                    *)
(*   gdb                 the state of the stub's state machine             *)
(*   sent, events        commands sent and stop events reported so far     *)
(*   at, took, set, addr, hit, ticked                                      *)
(*                       the last pass of the loop: the mode it started    *)
(*                       in, the commands it received, the mode and the pc *)
(*                       after handle_cmd, whether the breakpoint check    *)
(*                       fired and whether it called tick                  *)
(*   owed                a breakpoint stopped a hart that was to execute,  *)
(*                       or tick returned Halt, and no stop event has been *)
(*                       reported since                                    *)
(***************************************************************************)
MaxCmds == 3        \* commands sent by the debug thread

\* addi x1,x1,1; ebreak; addi x1,x1,1
DbgProgram == <<W(16, 32915), W(16, 115), W(16, 32915)>>

NoCmd == [cmd |-> "none", addr |-> {}, mode |-> "Halt", regs |-> <<>>]
BreakCmd(name, a) == [NoCmd EXCEPT !.cmd = name, !.addr = a]
ModeCmd(m) == [NoCmd EXCEPT !.cmd = "SetResumeAction", !.mode = m]
PlainCmd(name) == [NoCmd EXCEPT !.cmd = name]
RegsCmd(regs) == [NoCmd EXCEPT !.cmd = "SetRegisters", !.regs = regs]

CmdPool ==
    {BreakCmd("AddBreakpoint", a) : a \in {Bits(0), Bits(4)}}
       \cup {BreakCmd("RemoveBreakpoint", Bits(4))}
       \cup {ModeCmd(m) : m \in {"Continue", "Halt", "Step"}}
       \cup {PlainCmd("ClearResumeAction"), PlainCmd("Resume")}
       \cup {RegsCmd(regs) : regs \in RegsPool}

\* Emulator::handle_cmd on the state s = [h, breakpoints, mode]; the commands
\* answered on a reply channel or ignored leave s alone, and so does an empty
\* or disconnected channel ("none")
handle_cmd(s, c) ==
    CASE c.cmd = "AddBreakpoint" -> [s EXCEPT !.breakpoints = @ \cup {c.addr}]
      [] c.cmd = "RemoveBreakpoint" -> [s EXCEPT !.breakpoints = @ \ {c.addr}]
      [] c.cmd = "SetRegisters" -> [s EXCEPT !.h = SetRegisters(@, c.regs)]
      [] c.cmd = "SetResumeAction" -> [s EXCEPT !.mode = c.mode]
      [] c.cmd = "ClearResumeAction" -> [s EXCEPT !.mode = "Continue"]
      [] OTHER -> s

\* run_hart, `match hart.tick()`: an error leaves the loop
LoopTick(s, mode, t) ==
    [h |-> t.h, breakpoints |-> s.breakpoints, mode |-> mode, set |-> s.mode,
     hit |-> FALSE, ticked |-> TRUE, running |-> t.res.ok, res |-> t.res]

\* run_hart after handle_cmd: a breakpoint at the pc sets the mode to Halt;
\* Halt starts the next pass, Step becomes Halt, and the hart ticks
LoopBody(s, hit) ==
    IF hit \/ s.mode = "Halt"
    THEN [h |-> s.h, breakpoints |-> s.breakpoints, mode |-> "Halt", set |-> s.mode,
          hit |-> hit, ticked |-> FALSE, running |-> TRUE, res |-> Ok({})]
    ELSE LoopTick(s, IF s.mode = "Step" THEN "Halt" ELSE s.mode, tick(s.h, 65))

\* one pass of the loop of run_hart that received the command c (NoCmd when
\* try_recv found the channel empty); steps is the parity of the passes made,
\* which tells a pass that changes nothing else from no pass at all
run_hart(h, breakpoints, mode, c) ==
    \E s \in {handle_cmd([h |-> h, breakpoints |-> breakpoints, mode |-> mode], c)} :
    \E r \in {LoopBody(s, s.h.pc \in s.breakpoints)} :
       /\ SetHart(r.h)
       /\ last' = [op |-> "run_hart", w |-> 0, addr |-> s.h.pc, val |-> {}, res |-> r.res]
       /\ irq' = [irq EXCEPT !.mode = r.mode, !.breakpoints = r.breakpoints,
                             !.running = r.running,
                             !.channel = IF c = NoCmd THEN @ ELSE Tail(@),
                             !.at = mode, !.took = IF c = NoCmd THEN 0 ELSE 1,
                             !.set = r.set, !.hit = r.hit, !.ticked = r.ticked,
                             !.addr = s.h.pc,
                             !.owed = @ \/ (r.hit /\ r.set # "Halt")
                                        \/ r.res.err = "Halt"]
       /\ steps' = 1 - steps
       /\ UNCHANGED <<ram, ticks>>

\* Emulator::new: a RAM holding the program, the hart at its start with sp
\* set 0x100000 above the pc, and run_hart started in mode Halt
InitDbg ==
    /\ devices = DynBusMap(<<>>, [kind |-> "ram", data |-> Image(DbgProgram)],
                           [start |-> Bits(0), end |-> Bits(MemSize)])
    /\ registers = [r \in 0..31 |-> IF r = 2 THEN Add(start_pc, {20}) ELSE {}]
    /\ pc = start_pc
    /\ csr = CsrNew({})
    /\ stop = FALSE
    /\ ram = <<>>
    /\ irq = [mode |-> "Halt", breakpoints |-> {}, channel |-> <<>>, running |-> TRUE,
              gdb |-> "Idle", sent |-> 0, events |-> 0, conn |-> TRUE,
              at |-> "Halt", took |-> 0, set |-> "Halt", hit |-> FALSE, ticked |-> FALSE,
              addr |-> start_pc, owed |-> FALSE]
    /\ last = NoOp
    /\ steps = 0
    /\ ticks = 0

\* run_hart in mode Continue or Step: receiver.try_recv()
RunHartPolling ==
    /\ irq.running /\ irq.mode \in {"Continue", "Step"}
    /\ run_hart(Hart, irq.breakpoints, irq.mode,
                IF irq.channel = <<>> THEN NoCmd ELSE Head(irq.channel))

\* run_hart in mode Halt: receiver.recv() blocks until a command arrives
RunHartBlocking ==
    /\ irq.running /\ irq.mode = "Halt"
    /\ irq.channel # <<>>
    /\ run_hart(Hart, irq.breakpoints, irq.mode, Head(irq.channel))

\* run_hart in mode Halt, every Sender dropped and the channel drained:
\* receiver.recv() returns Err at once and handle_cmd gets Disconnected
RunHartDisconnected ==
    /\ irq.running /\ irq.mode = "Halt"
    /\ irq.channel = <<>> /\ ~irq.conn
    /\ run_hart(Hart, irq.breakpoints, irq.mode, NoCmd)

\* the debug thread is done with the Emulator and drops it, and with it the
\* only Sender of the command channel; commands already sent stay queued
DropSender ==
    /\ irq.conn
    /\ irq' = [irq EXCEPT !.conn = FALSE]
    /\ last' = [op |-> "drop", w |-> 0, addr |-> {}, val |-> {}, res |-> Ok({})]
    /\ UNCHANGED <<registers, pc, csr, stop, devices, ram, steps, ticks>>

\* the debug thread sends a command: `sender.send(..).expect("disco")` panics
\* once run_hart has returned and dropped the receiver; after resume() the
\* stub is Running
Send(c) ==
    /\ irq.conn
    /\ irq.gdb = "Idle" /\ irq.sent < MaxCmds
    /\ irq' = [irq EXCEPT !.sent = @ + 1,
                          !.channel = IF irq.running THEN Append(@, c) ELSE @,
                          !.gdb = IF ~irq.running THEN "Panicked"
                                  ELSE IF c.cmd = "Resume" THEN "Running" ELSE @]
    /\ last' = [op |-> "send", w |-> 0, addr |-> c.addr, val |-> {},
                res |-> IF irq.running THEN Ok({}) ELSE Err("panic", {})]
    /\ UNCHANGED <<registers, pc, csr, stop, devices, ram, steps, ticks>>

\* Debugger::run, GdbStubStateMachine::Running: report_stop(DoneStep) at once
ReportStop ==
    /\ irq.conn
    /\ irq.gdb = "Running"
    /\ irq' = [irq EXCEPT !.gdb = "Idle", !.events = @ + 1, !.owed = FALSE]
    /\ last' = [op |-> "report_stop", w |-> 0, addr |-> {}, val |-> {}, res |-> Ok({})]
    /\ UNCHANGED <<registers, pc, csr, stop, devices, ram, steps, ticks>>

NextDbg ==
    \/ RunHartPolling
    \/ RunHartBlocking
    \/ \E c \in CmdPool : Send(c)
    \/ ReportStop
    \/ RunHartDisconnected
    \/ DropSender

SpecDbg == InitDbg /\ [][NextDbg]_vars

\* the hart thread is scheduled: a pass of the loop that can start does start
SpecDbgFair == SpecDbg /\ WF_vars(RunHartDisconnected)

\* C27: in the debug run loop the hart retires an instruction only while its
\* ExecutionMode is Continue or Step: in Halt mode it blocks on the command
\* channel and executes nothing; in Step mode it executes exactly one
\* instruction and then returns to Halt; in Continue or Step mode it takes at
\* most one pending command, without blocking, per instruction.
C27_RunLoopModes ==
    [][/\ (registers' # registers \/ pc' # pc \/ csr' # csr \/ stop' # stop
              \/ devices' # devices)
            => last'.op = "run_hart"
       /\ (last'.op = "run_hart")
            => /\ irq'.ticked => irq'.set \in {"Continue", "Step"}
               /\ (irq.mode = "Halt" /\ irq.channel = <<>> /\ irq.conn) => FALSE
               /\ (irq.mode = "Halt" /\ irq'.set = "Halt") => ~irq'.ticked
               /\ (irq'.set = "Step") => irq'.ticked /\ irq'.mode = "Halt"
               /\ (irq.mode \in {"Continue", "Step"})
                     => Len(irq.channel) - Len(irq'.channel) = irq'.took /\ irq'.took <= 1
      ]_vars

\* C28: whenever the hart's PC reaches a breakpoint address, or tick returns
\* Halt, the retirement loop stops executing instructions and a TargetStopped
\* event is eventually delivered to the debugger on the outbound channel: as
\* long as a stop is owed, the stub is Running, the one state in which
\* Debugger::run reports a stop.
C28_StopReported ==
    /\ [][(last'.op = "run_hart")
             => /\ irq'.hit => ~irq'.ticked /\ irq'.mode = "Halt"
                /\ (last'.res.err = "Halt") => ~irq'.running
         ]_vars
    /\ [][~irq.running => UNCHANGED <<registers, pc, csr, stop, devices>>]_vars
    /\ [](irq.owed => irq.gdb = "Running")

\* the hart has halted at a breakpoint, and the next command it receives is
\* SetResumeAction(Step) or SetResumeAction(Continue)
ResumedAtBreakpoint ==
    /\ irq.running /\ irq.mode = "Halt" /\ irq.hit /\ pc \in irq.breakpoints
    /\ irq.channel # <<>>
    /\ Head(irq.channel) \in {ModeCmd("Step"), ModeCmd("Continue")}

\* C30: after the hart has halted because its PC equals a breakpoint address,
\* a subsequent SetResumeAction(Step) or SetResumeAction(Continue) makes it
\* execute the instruction at that address, without the breakpoint first
\* being removed: the pass of the loop that receives the command calls tick
\* at that address and does not go back to waiting in mode Halt.
C30_ResumePastBreakpoint ==
    [][(ResumedAtBreakpoint /\ last'.op = "run_hart")
          => irq'.ticked /\ irq'.addr = pc
      ]_vars

(***************************************************************************)
(* Concurrent access to one Ram (ram.rs): the hart thread and the debug    *)
(* thread share the bus (DynBus is Send + Sync, and its device list is     *)
(* only read once the threads run), and every access of Ram takes the      *)
(* RwLock on `data`, moves its bytes one by one and drops the guard when   *)
(* it returns.  `ram` is the byte vector and `irq` holds                   *)
(*   readers, writer     the threads holding the RwLock                    *)
(*   stable              the vector when no write was last in progress     *)
(*   ops                 accesses started so far                           *)
(*   th[t]               thread t: where it is (at), its access (kind, w,  *)
(*                       addr, val), the bytes moved (k), the value read   *)
(*                       so far (acc), its result (res), and for a read    *)
(*                       the results an access of the vector could have    *)
(*                       returned at the moments, from its call on, when   *)
(*                       no write was in progress (seen)                   *)
(***************************************************************************)
MaxLockOps == 2     \* accesses started by the two threads together

Threads == {"hart", "debug"}

LockAddrs == {Bits(0), Bits(4)}

IdleThread ==
    [at |-> "idle", kind |-> "read", w |-> 1, addr |-> {}, val |-> {}, k |-> 0,
     acc |-> {}, res |-> Ok({}), seen |-> {}]

\* every access is granted, whoever holds the lock
RwLockNone(readers, writer, kind) == TRUE

\* RwLock: read() is granted while no thread writes, write() while no thread
\* holds the lock at all
RwLockGrants(readers, writer, kind) ==
    /\ writer = "none"
    /\ kind = "write" => readers = {}

\* `*(shared.get_mut(addr + k).ok_or(MemoryFault(addr))?) = (val >> 8k) as u8`
RamStoreByte(data, addr, k, val) ==
    IF RamIndex(data, addr) + k < Len(data)
    THEN [data |-> [data EXCEPT ![RamIndex(data, addr) + k + 1] = ByteOf(val, k)],
          res |-> Ok({})]
    ELSE [data |-> data, res |-> Err("MemoryFault", addr)]

\* `(*data.get(addr + k).ok_or(MemoryFault(addr))? as u64) << 8k`
RamLoadByte(data, addr, k) ==
    IF RamIndex(data, addr) + k < Len(data)
    THEN Ok(Shl(Bits(data[RamIndex(data, addr) + k + 1]), 8 * k))
    ELSE Err("MemoryFault", addr)

InitLock ==
    /\ NoHart
    /\ devices = <<>>
    /\ ram = RamNew
    /\ irq = [readers |-> {}, writer |-> "none", stable |-> RamNew, ops |-> 0,
              th |-> [t \in Threads |-> IdleThread]]
    /\ last = NoOp
    /\ steps = 0

LockFrame == UNCHANGED <<registers, pc, csr, stop, devices, steps, ticks>>

\* thread t calls read_w(addr) or write_w(addr, val)
Call(t, kind, w, addr, val) ==
    /\ irq.th[t].at = "idle" /\ irq.ops < MaxLockOps
    /\ irq' = [irq EXCEPT !.ops = @ + 1,
                          !.th[t] = [IdleThread EXCEPT
                                       !.at = "wait", !.kind = kind, !.w = w,
                                       !.addr = addr, !.val = Trunc(val, 8 * w),
                                       !.seen = {RamRead(irq.stable, w, addr)}]]
    /\ last' = [op |-> "call", w |-> w, addr |-> addr, val |-> Trunc(val, 8 * w),
                res |-> Ok({})]
    /\ UNCHANGED ram /\ LockFrame

\* `self.data.read().unwrap()` / `self.data.write().unwrap()`
Acquire(t) ==
    /\ irq.th[t].at = "wait"
    /\ RwLockGrants(irq.readers, irq.writer, irq.th[t].kind)
    /\ irq' = [irq EXCEPT !.th[t].at = "held",
                          !.readers = IF irq.th[t].kind = "read" THEN @ \cup {t} ELSE @,
                          !.writer = IF irq.th[t].kind = "write" THEN t ELSE @]
    /\ last' = [op |-> "acquire", w |-> irq.th[t].w, addr |-> irq.th[t].addr,
                val |-> irq.th[t].val, res |-> Ok({})]
    /\ UNCHANGED ram /\ LockFrame

\* the read of thread t has been called and has not returned
Reading(t) == irq.th[t].kind = "read" /\ irq.th[t].at \in {"wait", "held"}

\* the guard of thread t is dropped with result res, the vector now being data
Release(t, data, res) ==
    [irq EXCEPT !.readers = @ \ {t},
                !.writer = IF @ = t THEN "none" ELSE @,
                !.stable = IF irq.writer = t THEN data ELSE @,
                !.th = [u \in Threads |->
                          IF u = t THEN [@[u] EXCEPT !.at = "done", !.res = res]
                          ELSE IF irq.writer = t /\ Reading(u)
                          THEN [@[u] EXCEPT
                                  !.seen = @ \cup {RamRead(data, irq.th[u].w, irq.th[u].addr)}]
                          ELSE @[u]]]

\* one byte of a write; the first byte out of bounds returns MemoryFault, and
\* the access returns Ok(()) after its last byte
WriteByte(t) ==
    /\ irq.th[t].at = "held" /\ irq.th[t].kind = "write"
    /\ \E s \in {RamStoreByte(ram, irq.th[t].addr, irq.th[t].k, irq.th[t].val)} :
          /\ ram' = s.data
          /\ irq' = IF s.res.ok /\ irq.th[t].k + 1 < irq.th[t].w
                    THEN [irq EXCEPT !.th[t].k = @ + 1]
                    ELSE Release(t, s.data, s.res)
          /\ last' = [op |-> "write_byte", w |-> irq.th[t].w, addr |-> irq.th[t].addr,
                      val |-> irq.th[t].val, res |-> s.res]
    /\ LockFrame

\* one byte of a read, added to the sum; the access returns Ok(val) after its
\* last byte
ReadByte(t) ==
    /\ irq.th[t].at = "held" /\ irq.th[t].kind = "read"
    /\ \E b \in {RamLoadByte(ram, irq.th[t].addr, irq.th[t].k)} :
          /\ irq' = IF b.ok /\ irq.th[t].k + 1 < irq.th[t].w
                    THEN [irq EXCEPT !.th[t].k = @ + 1, !.th[t].acc = @ \cup b.val]
                    ELSE Release(t, ram, IF b.ok THEN Ok(irq.th[t].acc \cup b.val) ELSE b)
          /\ last' = [op |-> "read_byte", w |-> irq.th[t].w, addr |-> irq.th[t].addr,
                      val |-> {}, res |-> b]
    /\ UNCHANGED ram /\ LockFrame

\* the caller takes the result
Return(t) ==
    /\ irq.th[t].at = "done"
    /\ irq' = [irq EXCEPT !.th[t] = IdleThread]
    /\ last' = [op |-> "return", w |-> irq.th[t].w, addr |-> irq.th[t].addr,
                val |-> irq.th[t].val, res |-> irq.th[t].res]
    /\ UNCHANGED ram /\ LockFrame

NextLock ==
    \/ \E t \in Threads, w \in Widths, a \in LockAddrs : Call(t, "read", w, a, {})
    \/ \E t \in Threads, w \in Widths, a \in LockAddrs : Call(t, "write", w, a, Pattern)
    \/ \E t \in Threads : Acquire(t)
    \/ \E t \in Threads : WriteByte(t)
    \/ \E t \in Threads : ReadByte(t)
    \/ \E t \in Threads : Return(t)

SpecLock == InitLock /\ [][NextLock]_vars

\* C29: with the hart thread and the debug thread accessing the same RAM
\* concurrently, each single-width access is atomic: a read_w returns what
\* the RAM held for it at a moment, between its call and its return, when no
\* write was in progress, so that a read_w concurrent with a write_w to the
\* same address returns the complete old or the complete new value, never a
\* mixture of their bytes.
C29_AtomicAccess ==
    \A t \in Threads :
       (irq.th[t].at = "done" /\ irq.th[t].kind = "read")
          => irq.th[t].res \in irq.th[t].seen

\* a read_w has returned the new value of a write_w to the same address that
\* was in progress after the read was called
C29_Witness ==
    \E t \in Threads, u \in Threads :
       /\ irq.th[t].at = "done" /\ irq.th[t].kind = "read" /\ irq.th[t].res.ok
       /\ irq.th[u].at = "done" /\ irq.th[u].kind = "write"
       /\ irq.th[u].w = irq.th[t].w /\ irq.th[u].addr = irq.th[t].addr
       /\ irq.th[t].res.val = irq.th[u].val
       /\ Cardinality(irq.th[t].seen) = 2

\* C40: a RAM write that returns MemoryFault (a multi-byte write that runs
\* past the end of the RAM) leaves every byte of the RAM unchanged.
C40_FaultingWriteNoEffect ==
    [][(last'.op = "ram_write" /\ last'.res.err = "MemoryFault") => ram' = ram]_vars

(***************************************************************************)
(* SpecRom: a stand-alone ROM built from an image and read at every width  *)
(* and offset; `ram` holds its bytes.                                      *)
(***************************************************************************)
MaxRomOps == 2      \* operations performed on the stand-alone ROM

\* the image of rom.rs tests::init_read, a longer one all of whose bytes
\* differ, and the empty one
RomImages == {<<19, 129, 0, 125>>, <<17, 34, 51, 68, 85, 102, 119, 136, 153>>, <<>>}

\* Rom::new
InitRom ==
    /\ NoHart /\ NoIrq
    /\ devices = <<>>
    /\ ram \in RomImages
    /\ last = NoOp
    /\ steps = 0

RomReadOp(w, a) ==
    /\ steps < MaxRomOps
    /\ last' = [op |-> "rom_read", w |-> w, addr |-> Bits(a), val |-> {},
                res |-> RomRead(ram, w, Bits(a))]
    /\ steps' = steps + 1
    /\ UNCHANGED <<ticks, registers, pc, csr, stop, devices, ram, irq>>

RomWriteOp(w, a, v) ==
    /\ steps < MaxRomOps
    /\ ram' = RomWrite(ram, w, Bits(a), Trunc(v, 8 * w)).data
    /\ last' = [op |-> "rom_write", w |-> w, addr |-> Bits(a), val |-> Trunc(v, 8 * w),
                res |-> RomWrite(ram, w, Bits(a), Trunc(v, 8 * w)).res]
    /\ steps' = steps + 1
    /\ UNCHANGED <<ticks, registers, pc, csr, stop, devices, irq>>

NextRom ==
    \/ \E w \in Widths, a \in 0..RamSize : RomReadOp(w, a)
    \/ \E w \in Widths, a \in 0..RamSize : RomWriteOp(w, a, Pattern)

SpecRom == InitRom /\ [][NextRom]_vars

\* C35: for every ROM content and every offset a with a + w <= length, a ROM
\* read of width w returns the little-endian value of the bytes at
\* a .. a+w-1, the value a RAM holding the same bytes returns; a read that
\* reaches past the end fails with MemoryFault.
C35_RomReadsAsRam ==
    [][(last'.op = "rom_read") =>
          \A a \in {NatOf(last'.addr)} : \A w \in {last'.w} :
             IF a + w <= Len(ram)
             THEN /\ last'.res.ok
                  /\ last'.res.val \subseteq 0..(8 * w - 1)
                  /\ \A k \in 0..(w - 1) :
                        {b \in 0..7 : (ram[a + k + 1] \div (2 ^ b)) % 2 = 1}
                           = {i - 8 * k : i \in last'.res.val \cap ((8 * k)..(8 * k + 7))}
                  /\ last'.res = RamRead(ram, w, last'.addr)
             ELSE last'.res = Err("MemoryFault", last'.addr)
      ]_vars

\* the RTC's mtimecmp after a step, as read_double(0x0) returns it
MtimecmpAfter == RtcRead(devices'[1].dev, 8, Bits(MTIMECMP_ADDR)).val

\* C34: after the low half L is written to RTC offset 0x0 and the high half H
\* to offset 0x4 with 32-bit writes, in either order, mtimecmp reads back as
\* (H << 32) | L; each half write changes only its own half of mtimecmp.
C34_MtimecmpHalves ==
    [][/\ (last'.op = "rtc_write" /\ last'.w = 4 /\ last'.addr = Bits(MTIMECMP_ADDR))
            => /\ Trunc(MtimecmpAfter, 32) = Trunc(last'.val, 32)
               /\ Shr(MtimecmpAfter, 32) = Shr(devices[1].dev.mtimecmp, 32)
       /\ (last'.op = "rtc_write" /\ last'.w = 4 /\ last'.addr = Bits(MTIMECMP_ADDRH))
            => /\ Shr(MtimecmpAfter, 32) = Trunc(last'.val, 32)
               /\ Trunc(MtimecmpAfter, 32) = Trunc(devices[1].dev.mtimecmp, 32)
       /\ (/\ last.op = "rtc_write" /\ last.w = 4
           /\ last'.op = "rtc_write" /\ last'.w = 4
           /\ {last.addr, last'.addr} = {Bits(MTIMECMP_ADDR), Bits(MTIMECMP_ADDRH)})
            => \A lo \in {IF last.addr = Bits(MTIMECMP_ADDR) THEN last.val ELSE last'.val} :
               \A hi \in {IF last.addr = Bits(MTIMECMP_ADDRH) THEN last.val ELSE last'.val} :
                  /\ MtimecmpAfter = Trunc(lo, 32) \cup Shl(Trunc(hi, 32), 32)
                  /\ RtcRead(devices'[1].dev, 4, Bits(MTIMECMP_ADDR)) = Ok(Trunc(lo, 32))
                  /\ RtcRead(devices'[1].dev, 4, Bits(MTIMECMP_ADDRH)) = Ok(Trunc(hi, 32))
      ]_vars

(***************************************************************************)
(* SpecClint: a CLINT and the RTC behind it (devices[1] and devices[2]),   *)
(* written and read through the CLINT's device interface, and interrupt    *)
(* arbitration reading the CLINT's MSIP word, with nothing pending at the  *)
(* PLIC.  `irq` holds the last arbitration and                             *)
(*   raised      the last word written to MSIP of hart 0 was non-zero      *)
(***************************************************************************)
MaxClintOps == 3    \* accesses of the CLINT and arbitrations

\* where bin/linuxdbg.rs maps the CLINT: 0x2000000 .. 0x2010000
ClintRange == [start |-> {25}, end |-> {25, 16}]

\* MSIP of hart 0 and of hart 1, mtimecmp, mtime
ClintAddrPool == {MSIP_HART0_ADDR, 4, CLINT_MTIMECMP_ADDR, CLINT_MTIME_ADDR}
ClintValuePool == {{}, {0}, {31}}

InitClint ==
    /\ NoHart
    /\ devices = DynBusMap(DynBusMap(<<>>, ClintNew, ClintRange), RtcNew, RtcRange)
    /\ ram = <<>>
    /\ irq = [raised |-> FALSE, mstatus |-> {}, mip |-> {}, mie |-> {}, msip |-> Ok({}),
              res |-> [kind |-> "None", val |-> {}]]
    /\ last = NoOp
    /\ steps = 0

ClintWriteOp(w, a, val) ==
    /\ steps < MaxClintOps
    /\ \E r \in {ClintWrite(devices[1].dev, devices[2].dev, w, a, val)} :
          /\ devices' = [devices EXCEPT ![1].dev = r.dev, ![2].dev = r.rtc]
          /\ last' = [op |-> "clint_write", w |-> w, addr |-> Bits(a), val |-> val,
                      res |-> r.res]
    /\ irq' = [irq EXCEPT !.raised = IF w = 4 /\ a = MSIP_HART0_ADDR
                                      THEN Trunc(val, 32) # {} ELSE @]
    /\ steps' = steps + 1
    /\ UNCHANGED <<ticks, registers, pc, csr, stop, ram>>

ClintReadOp(w, a) ==
    /\ steps < MaxClintOps
    /\ last' = [op |-> "clint_read", w |-> w, addr |-> Bits(a), val |-> {},
                res |-> ClintRead(devices[1].dev, devices[2].dev, w, a)]
    /\ steps' = steps + 1
    /\ UNCHANGED <<ticks, registers, pc, csr, stop, devices, ram, irq>>

\* clint::interrupt with the hart's MSTATUS, MIP and MIE:
\* `hart.bus.read_word(CLINT_BASE + MSIP_HART0_ADDR)` reaches the CLINT
ClintInterrupt(mstatus, mip, mie) ==
    /\ steps < MaxClintOps
    /\ \E msip \in {ClintRead(devices[1].dev, devices[2].dev, 4, MSIP_HART0_ADDR)} :
          irq' = [irq EXCEPT !.mstatus = mstatus, !.mip = mip, !.mie = mie, !.msip = msip,
                             !.res = interrupt(mstatus, mip, mie, msip, Ok({}))]
    /\ last' = [op |-> "interrupt", w |-> 0, addr |-> {}, val |-> {}, res |-> Ok({})]
    /\ steps' = steps + 1
    /\ UNCHANGED <<ticks, registers, pc, csr, stop, devices, ram>>

NextClint ==
    \/ \E w \in Widths, a \in ClintAddrPool, val \in ClintValuePool : ClintWriteOp(w, a, val)
    \/ \E w \in Widths, a \in ClintAddrPool : ClintReadOp(w, a)
    \/ \E mstatus \in {{}, {3}}, mip \in {{}, {3}, {7}}, mie \in {{}, {3}, {3, 7}} :
          ClintInterrupt(mstatus, mip, mie)

SpecClint == InitClint /\ [][NextClint]_vars

\* C32: after a non-zero write to the CLINT MSIP register (offset 0x0) and
\* until a zero write, the hart's effective pending mask has the
\* machine-software-interrupt bit (bit 3) set, so with MIE.MSIE and
\* MSTATUS.MIE set (and no other cause enabled) the next arbitration yields
\* mcause 0x8000000000000003; after a zero write, and with the bit clear in
\* the CSR mip, it no longer does.
C32_MsipRaisesMsi ==
    [][(last'.op = "interrupt" /\ 3 \in irq'.mstatus /\ irq'.mie = {3})
          => /\ irq.raised => irq'.res = [kind |-> "Some", val |-> {63, 1, 0}]
             /\ (~irq.raised /\ 3 \notin irq'.mip) => irq'.res.kind = "None"
      ]_vars

\* C36: instruction fetch reads a halfword at PC first and reads the halfword
\* at PC+2 only when the first parcel's low two bits are 11, so a 16-bit
\* instruction that occupies the last two bytes of a mapped region is fetched
\* and retired successfully (here c.li x1,1 retires with x1 = 1 and PC + 2).
C36_LastParcelFetched ==
    [][\A first \in {DynBusRead(devices, 2, pc)} :
          (/\ last'.op = "tick" /\ ~stop
           /\ first.ok /\ ~({0, 1} \subseteq first.val)
           /\ ~DynBusRead(devices, 2, Add(pc, Bits(2))).ok)
             => /\ last'.w = 2 /\ last'.val = first.val
                /\ (first.val = Bits(16517))
                      => /\ last'.res.ok
                         /\ pc' = Add(pc, Bits(2))
                         /\ registers' = [registers EXCEPT ![1] = Bits(1)]
      ]_vars

\* C37: CSRRW rd, csr, rs1 with rd and rs1 the same non-zero register swaps
\* the two values: afterwards the CSR holds the register's old value and the
\* register holds the CSR's old value; likewise CSRRS and CSRRC use the value
\* rs1 had before rd is written.
C37_CsrSameRegister ==
    [][\A i \in {last'.val} : \A r \in {Field(i, 7, 5)} :
          (/\ last'.op = "tick" /\ last'.res.ok /\ IsZicsr(i, last'.w, {1, 2, 3})
           /\ r # 0 /\ Field(i, 15, 5) = r /\ CsrOf(i) \notin {MCYCLE, MINSTRET})
             => /\ registers' = [registers EXCEPT ![r] = CsrGet(csr, CsrOf(i))]
                /\ CsrGet(csr', CsrOf(i)) =
                      CASE Field(i, 12, 3) = 1 -> registers[r]
                        [] Field(i, 12, 3) = 2 -> CsrGet(csr, CsrOf(i)) \cup registers[r]
                        [] OTHER -> CsrGet(csr, CsrOf(i)) \ registers[r]
      ]_vars

\* C31: a tick that returns a fault (from fetch, decode or execute) leaves the
\* architectural state as it was before the tick: PC still addresses the
\* faulting instruction and no general register has been modified.
C31_FaultKeepsState ==
    [][(last'.op = "tick" /\ ~stop /\ ~last'.res.ok)
          => pc' = pc /\ registers' = registers
      ]_vars

(***************************************************************************)
(* SpecDesc: a descriptor table in guest memory, every descriptor with any *)
(* flags and any next index, and get_desc_rw_size called on a head index.  *)
(* `irq` holds the table and, after the call, what the traversal did.      *)
(***************************************************************************)
MaxDescs == 3       \* descriptors in the table

\* the length of descriptor i
DescLen(i) == 2 ^ (2 * i)

DescTables ==
    [0..(MaxDescs - 1) -> [flags : 0..(VirtqDescNEXT + VirtqDescWRITE), next : 0..(MaxDescs - 1)]]

\* byte n of the table: struct virtq_desc is addr (8 bytes), len (4),
\* flags (2), next (2), little-endian
DescByte(table, n) ==
    CASE n % 16 = 8 -> DescLen(n \div 16)
      [] n % 16 = 12 -> table[n \div 16].flags
      [] n % 16 = 14 -> table[n \div 16].next
      [] OTHER -> 0

DescImage(table) == [i \in 1..(16 * MaxDescs) |-> DescByte(table, i - 1)]

InitDesc ==
    /\ NoHart
    /\ \E table \in DescTables :
          /\ devices = DynBusMap(<<>>, [kind |-> "ram", data |-> DescImage(table)],
                                 [start |-> Bits(0), end |-> Bits(16 * MaxDescs)])
          /\ irq = [table |-> table, end |-> "", read |-> {}, write |-> {}, visited |-> <<>>]
    /\ ram = <<>>
    /\ last = NoOp
    /\ steps = 0

\* get_desc_rw_size(queue, head) on a queue whose table is at address 0
DescRwSize(head) ==
    /\ steps = 0
    /\ \E r \in {RwSums(devices, NewQueue, Bits(head))} :
          /\ irq' = [irq EXCEPT !.end = r.end, !.read = r.read, !.write = r.write,
                                !.visited = r.visited]
          /\ last' = [op |-> "get_desc_rw_size", w |-> 0, addr |-> Bits(head), val |-> {},
                      res |-> IF r.end = "ok" THEN Ok({}) ELSE Err(r.end, {})]
    /\ steps' = 1
    /\ UNCHANGED <<ticks, registers, pc, csr, stop, devices, ram>>

NextDesc == \E head \in 0..(MaxDescs - 1) : DescRwSize(head)

SpecDesc == InitDesc /\ [][NextDesc]_vars

\* the chain that starts at descriptor i: the descriptors reached through
\* next while the NEXT flag is set; <<>> when it comes back to a descriptor
\* of `before`
RECURSIVE Chain(_, _, _)
Chain(table, i, before) ==
    IF i \in before THEN <<>>
    ELSE IF table[i].flags % 2 = 0 THEN <<i>>
    ELSE IF Chain(table, table[i].next, before \cup {i}) = <<>> THEN <<>>
    ELSE <<i>> \o Chain(table, table[i].next, before \cup {i})

\* the summed lengths of the descriptors of chain c that are device-writable
\* (writable = TRUE) or device-readable
RECURSIVE ChainSize(_, _, _)
ChainSize(table, c, writable) ==
    IF c = <<>> THEN 0
    ELSE (IF (table[Head(c)].flags \div 2 = 1) = writable THEN DescLen(Head(c)) ELSE 0)
            + ChainSize(table, Tail(c), writable)

\* C33: for every descriptor chain whose last descriptor has the NEXT flag
\* clear, the block device's chain traversal visits every descriptor of the
\* chain exactly once in next order, terminates at the last descriptor, and
\* returns the summed lengths of the device-readable and the device-writable
\* descriptors of the whole chain.
C33_ChainTraversal ==
    (last.op = "get_desc_rw_size") =>
       \A c \in {Chain(irq.table, NatOf(last.addr), {})} :
          c # <<>> =>
             /\ irq.end = "ok"
             /\ irq.visited = [k \in DOMAIN c |-> Bits(c[k])]
             /\ irq.read = Bits(ChainSize(irq.table, c, FALSE))
             /\ irq.write = Bits(ChainSize(irq.table, c, TRUE))

\* C38: in every reachable state of the VirtIO block device the queue index in
\* use is below MAX_QUEUES (16): a QueueSel or QueueNotify write with a value
\* of 16 or more is rejected or ignored (it returns to its caller and leaves
\* the device as it was), so that no later QueueReady, QueueSize,
\* Queue*Low/High or QueueNotify access indexes outside the queue table.
C38_QueueIndexBounded ==
    /\ [](NatOf(devices[2].dev.state.queue_idx) < MAX_QUEUES)
    /\ [][(/\ last'.op = "blk_write" /\ last'.w = 4
           /\ last'.addr \in {Bits(RegisterQueueSel), Bits(RegisterQueueNotify)}
           /\ NatOf(last'.val) >= MAX_QUEUES)
             => last'.res.err # "panic" /\ devices' = devices
         ]_vars
    /\ [][(last'.op \in {"blk_write", "blk_read"} /\ last'.w = 4
           /\ NatOf(devices[2].dev.state.queue_idx) < MAX_QUEUES
           /\ last'.addr \in {Bits(RegisterQueueReady), Bits(RegisterQueueSize),
                              Bits(RegisterQueueDescLow), Bits(RegisterQueueDriverLow)})
             => last'.res.ok
         ]_vars

\* the debug thread has dropped the Sender and the channel holds no command
Disconnected == ~irq.conn /\ irq.channel = <<>>

\* C39: when the debugger side drops the command channel, the run loop of the
\* hart thread eventually terminates; it does not keep iterating forever on
\* the disconnected channel, in particular not while in Halt mode: from a
\* state where the loop is in mode Halt on a disconnected channel, run_hart
\* returns.
C39_LoopTerminates ==
    (Disconnected /\ irq.mode = "Halt") ~> ~irq.running

====
